---- MODULE Spec2Model ----
(***************************************************************************)
(* A model of file_compressor.py, the Huffman coding file compressor: the  *)
(* files it reads and writes, the three commands of its command line       *)
(* (compress, decompress, analyze) taken statement by statement, and the   *)
(* functions they are built from; and of github_fork_scraper_resumable.py, *)
(* the fork scraper that saves its progress and resumes after Ctrl+C.      *)
(*                                                                         *)
(* A Python str is a sequence of one-character strings; a bit string is a  *)
(* sequence of "0" and "1"; bytes are a sequence of integers 0..255.       *)
(* HuffmanNode objects live in a store, a sequence of records indexed by   *)
(* object identity, where identity 0 is None.                              *)
(***************************************************************************)
EXTENDS Integers, Sequences, FiniteSets, TLC

(***************************************************************************)
(* Bounds of the model.                                                    *)
(***************************************************************************)
\* longest content of the input file of the command line runs
MaxLen == 3
\* largest count of one symbol in a frequency table handed to the library
MaxFreq == 5
\* longest bit string handed to pack_bits / decode_text directly
MaxBits == 9
\* longest text handed to the encoder and decoder as a library
MaxText == 4
\* most forks the scraped repository has
MaxForks == 9
\* forks on one page of the listing; the scraper asks for 100
PerPage == 2
\* most times Ctrl+C is pressed
MaxInterrupts == 2
\* longest bit string handed to decode_text on its own
MaxCode == 5
\* how many names of each repository list of delete_with_token.py are kept
MaxRepos == 1
\* how many times add_recent_change is called
MaxChanges == 11

\* symbols stored in files; CR and LF are the carriage return and line feed
FileAlphabet == {"a", "b", "CR", "LF"}
\* symbols of the frequency tables handed to the library
Alphabet == {"a", "b", "c", "d"}
Bit == {"0", "1"}

\* Python's None, as an object identity and as a HuffmanNode.char
None == 0
NoChar == "None"

RECURSIVE SeqsUpTo(_, _)
SeqsUpTo(S, n) ==
    IF n = 0 THEN {<<>>}
    ELSE LET shorter == SeqsUpTo(S, n - 1)
         IN  shorter \cup {Append(s, x) : s \in {t \in shorter : Len(t) = n - 1}, x \in S}

Range(s) == {s[i] : i \in 1..Len(s)}

(***************************************************************************)
(* HuffmanNode                                                             *)
(***************************************************************************)
\* HuffmanNode.__init__: a node with no children
HuffmanNode(char, freq) == [char |-> char, freq |-> freq, left |-> None, right |-> None]

\* mutant of Lt: the comparison turned round, a max-heap
Lt_reversed(ns, a, b) == ns[a].freq > ns[b].freq

\* HuffmanNode.__lt__, on the objects a and b of the store ns
Lt(ns, a, b) == ns[a].freq < ns[b].freq

\* HuffmanNode.is_leaf
is_leaf(node) == node.char # NoChar

(***************************************************************************)
(* build_frequency_table: collections.Counter keeps its keys in the order  *)
(* of first occurrence; a table is the sequence of its (char, freq) items. *)
(***************************************************************************)
\* mutant of build_frequency_table: Counter(set(text)), every count is 1
RECURSIVE build_frequency_table_of_set(_)
build_frequency_table_of_set(text) ==
    IF text = <<>> THEN <<>>
    ELSE LET counted == build_frequency_table_of_set(SubSeq(text, 1, Len(text) - 1))
             char == text[Len(text)]
         IN  IF \E i \in 1..Len(counted) : counted[i].char = char
             THEN counted
             ELSE Append(counted, [char |-> char, freq |-> 1])

RECURSIVE build_frequency_table(_)
build_frequency_table(text) ==
    IF text = <<>> THEN <<>>
    ELSE LET counted == build_frequency_table(SubSeq(text, 1, Len(text) - 1))
             char == text[Len(text)]
         IN  IF \E i \in 1..Len(counted) : counted[i].char = char
             THEN LET i == CHOOSE j \in 1..Len(counted) : counted[j].char = char
                  IN  [counted EXCEPT ![i].freq = @ + 1]
             ELSE Append(counted, [char |-> char, freq |-> 1])

(***************************************************************************)
(* heapq on a list h of object identities; positions are Python's, from 0. *)
(***************************************************************************)
RECURSIVE siftdown_loop(_, _, _, _, _)
siftdown_loop(ns, h, startpos, pos, newitem) ==
    IF pos > startpos
    THEN LET parentpos == (pos - 1) \div 2
             parent == h[parentpos + 1]
         IN  IF Lt(ns, newitem, parent)
             THEN siftdown_loop(ns, [h EXCEPT ![pos + 1] = parent], startpos, parentpos, newitem)
             ELSE [h EXCEPT ![pos + 1] = newitem]
    ELSE [h EXCEPT ![pos + 1] = newitem]

siftdown(ns, h, startpos, pos) == siftdown_loop(ns, h, startpos, pos, h[pos + 1])

RECURSIVE siftup_loop(_, _, _, _, _)
siftup_loop(ns, h, startpos, pos, newitem) ==
    LET endpos == Len(h)
        childpos == 2 * pos + 1
        rightpos == childpos + 1
        smaller == IF rightpos < endpos /\ ~Lt(ns, h[childpos + 1], h[rightpos + 1])
                   THEN rightpos ELSE childpos
    IN  IF childpos < endpos
        THEN siftup_loop(ns, [h EXCEPT ![pos + 1] = h[smaller + 1]], startpos, smaller, newitem)
        ELSE siftdown(ns, [h EXCEPT ![pos + 1] = newitem], startpos, pos)

siftup(ns, h, pos) == siftup_loop(ns, h, pos, pos, h[pos + 1])

RECURSIVE heapify_from(_, _, _)
heapify_from(ns, h, i) ==
    IF i < 0 THEN h ELSE heapify_from(ns, siftup(ns, h, i), i - 1)

\* mutant of heapify: the list is left in the order of the table
heapify_skipped(ns, h) == h

\* heapq.heapify(x): for i in reversed(range(n // 2)): _siftup(x, i)
heapify(ns, h) == heapify_from(ns, h, (Len(h) \div 2) - 1)

\* mutant of heappop: list.pop(), the last item of the list
heappop_last(ns, h) == [item |-> h[Len(h)], heap |-> SubSeq(h, 1, Len(h) - 1)]

\* heapq.heappop(heap): the item returned and the heap left
heappop(ns, h) ==
    LET lastelt == h[Len(h)]
        rest == SubSeq(h, 1, Len(h) - 1)
    IN  IF rest # <<>>
        THEN [item |-> rest[1], heap |-> siftup(ns, [rest EXCEPT ![1] = lastelt], 0)]
        ELSE [item |-> lastelt, heap |-> rest]

\* mutant of heappush: the item is not put on the heap
heappush_dropped(ns, h, item) == h

\* heapq.heappush(heap, item)
heappush(ns, h, item) == siftdown(ns, Append(h, item), 0, Len(h))

(***************************************************************************)
(* build_code_table: the dict of codes is a function from chars to bit     *)
(* strings. Left edge = "0", right edge = "1".                             *)
(***************************************************************************)
EmptyDict == [k \in {} |-> <<>>]

DictPut(d, k, v) == [x \in (DOMAIN d) \cup {k} |-> IF x = k THEN v ELSE d[x]]

\* mutant of traverse: the right edge labelled "0" like the left one
RECURSIVE traverse_same_label(_, _, _, _)
traverse_same_label(ns, node, code, codes) ==
    IF node = None THEN codes
    ELSE IF is_leaf(ns[node])
         THEN DictPut(codes, ns[node].char, IF code # <<>> THEN code ELSE <<"0">>)
         ELSE traverse_same_label(ns, ns[node].right, Append(code, "0"),
                                  traverse_same_label(ns, ns[node].left, Append(code, "0"), codes))

\* mutant of traverse: the right subtree is not visited
RECURSIVE traverse_left_only(_, _, _, _)
traverse_left_only(ns, node, code, codes) ==
    IF node = None THEN codes
    ELSE IF is_leaf(ns[node])
         THEN DictPut(codes, ns[node].char, IF code # <<>> THEN code ELSE <<"0">>)
         ELSE traverse_left_only(ns, ns[node].left, Append(code, "0"), codes)

\* the nested function traverse(node, code), run on the dict codes
RECURSIVE traverse(_, _, _, _)
traverse(ns, node, code, codes) ==
    IF node = None THEN codes
    ELSE IF is_leaf(ns[node])
         THEN DictPut(codes, ns[node].char, IF code # <<>> THEN code ELSE <<"0">>)
         ELSE traverse(ns, ns[node].right, Append(code, "1"),
                       traverse(ns, ns[node].left, Append(code, "0"), codes))

build_code_table(ns, root) == traverse(ns, root, <<>>, EmptyDict)

(***************************************************************************)
(* encode_text: "".join(code_table[char] for char in text); a char that is *)
(* no key of code_table raises KeyError.                                   *)
(***************************************************************************)
encode_raises(txt, codes) == \E i \in 1..Len(txt) : txt[i] \notin DOMAIN codes

\* mutant of encode_text: each code put in front of what was joined so far
RECURSIVE encode_text_reversed(_, _)
encode_text_reversed(txt, codes) ==
    IF txt = <<>> THEN <<>>
    ELSE encode_text_reversed(Tail(txt), codes) \o codes[Head(txt)]

RECURSIVE encode_text(_, _)
encode_text(txt, codes) ==
    IF txt = <<>> THEN <<>>
    ELSE codes[Head(txt)] \o encode_text(Tail(txt), codes)

(***************************************************************************)
(* pack_bits / unpack_bits                                                 *)
(***************************************************************************)
RECURSIVE Zeros(_)
Zeros(n) == IF n <= 0 THEN <<>> ELSE <<"0">> \o Zeros(n - 1)

\* Python's s[i:j] for 0 <= i
Slice(s, i, j) == SubSeq(s, i + 1, IF j < Len(s) THEN j ELSE Len(s))

\* int(s, 2) of a string of binary digits
RECURSIVE int2(_)
int2(s) ==
    IF s = <<>> THEN 0
    ELSE 2 * int2(SubSeq(s, 1, Len(s) - 1)) + (IF s[Len(s)] = "1" THEN 1 ELSE 0)

\* the loop of pack_bits: for i in range(0, len(bit_string), 8)
RECURSIVE pack_loop(_)
pack_loop(bit_string) ==
    IF bit_string = <<>> THEN <<>>
    ELSE <<int2(Slice(bit_string, 0, 8))>> \o pack_loop(Slice(bit_string, 8, Len(bit_string)))

\* mutant of pack_padding: the outer modulo left out
pack_padding_no_mod(bit_string) == 8 - (Len(bit_string) % 8)

pack_padding(bit_string) == (8 - (Len(bit_string) % 8)) % 8

\* pack_bits(bit_string): (bytes, padding)
pack_bits(bit_string) ==
    LET padding == pack_padding(bit_string)
    IN  [data |-> pack_loop(bit_string \o Zeros(padding)), padding |-> padding]

\* format(byte, 'b'): the binary digits of byte, most significant first
RECURSIVE bin(_)
bin(n) == IF n < 2 THEN <<IF n = 1 THEN "1" ELSE "0">>
          ELSE Append(bin(n \div 2), IF n % 2 = 1 THEN "1" ELSE "0")

\* mutant of format08b: format(byte, 'b'), without the zero fill
format_b(byte) == bin(byte)

\* format(byte, '08b'): zero-padded on the left to 8 digits
format08b(byte) == Zeros(8 - Len(bin(byte))) \o bin(byte)

RECURSIVE join_bytes(_)
join_bytes(data) ==
    IF data = <<>> THEN <<>> ELSE format08b(Head(data)) \o join_bytes(Tail(data))

\* Python's s[:-n] for n > 0
DropLast(s, n) == Slice(s, 0, Len(s) - n)

\* mutant of unpack_bits: the padding bits are not removed
unpack_bits_keep_padding(data, padding) == join_bytes(data)

unpack_bits(data, padding) ==
    LET bits == join_bytes(data)
    IN  IF padding > 0 THEN DropLast(bits, padding) ELSE bits

(***************************************************************************)
(* Files. A path holds no file, a text file (its stored symbols), an       *)
(* archive written by compress (the pickle of (tree_root, padding), then   *)
(* the packed bytes), or bytes that are no pickle at all.                  *)
(***************************************************************************)
Paths == {"in", "arc", "out"}

Absent == [kind |-> "absent"]
TextFile(data) == [kind |-> "text", data |-> data]
HuffFile(pickled, data) == [kind |-> "huff", pickled |-> pickled, packed |-> data]
Garbage == [kind |-> "garbage"]

\* Path.exists()
exists(files, path) == files[path].kind # "absent"

\* open(path, 'r', encoding='utf-8').read(): universal newlines turn
\* CR LF and a lone CR into LF
RECURSIVE read_text(_)
read_text(data) ==
    IF data = <<>> THEN <<>>
    ELSE IF Head(data) = "CR"
         THEN IF Len(data) >= 2 /\ data[2] = "LF"
              THEN <<"LF">> \o read_text(SubSeq(data, 3, Len(data)))
              ELSE <<"LF">> \o read_text(Tail(data))
         ELSE <<Head(data)>> \o read_text(Tail(data))

\* os.linesep of the platform (POSIX)
linesep == <<"LF">>

\* open(path, 'w', encoding='utf-8').write(s): LF is written as os.linesep
RECURSIVE write_text(_)
write_text(s) ==
    IF s = <<>> THEN <<>>
    ELSE (IF Head(s) = "LF" THEN linesep ELSE <<Head(s)>>) \o write_text(Tail(s))

(***************************************************************************)
(* pickle: dump writes the objects reachable from tree_root, each once, in *)
(* the order a pre-order walk meets them; load builds them again as new    *)
(* objects, numbered in that order.                                        *)
(***************************************************************************)
RECURSIVE preorder(_, _)
preorder(ns, n) ==
    IF n = None THEN <<>>
    ELSE <<n>> \o preorder(ns, ns[n].left) \o preorder(ns, ns[n].right)

IndexOf(order, n) ==
    IF n = None THEN None ELSE CHOOSE i \in 1..Len(order) : order[i] = n

pickle_dump(ns, root, pad) ==
    LET order == preorder(ns, root)
    IN  [tree |-> [i \in 1..Len(order) |->
                     [char  |-> ns[order[i]].char,
                      freq  |-> ns[order[i]].freq,
                      left  |-> IndexOf(order, ns[order[i]].left),
                      right |-> IndexOf(order, ns[order[i]].right)]],
         root |-> IndexOf(order, root),
         padding |-> pad]

\* pickle.load(f) on a file: raises on bytes that are no pickle
pickle_raises(file) == file.kind = "garbage"

(***************************************************************************)
(* State.                                                                  *)
(***************************************************************************)
VARIABLES
    fs,           \* the file at each path
    tampered,     \* the archive was changed after compress wrote it
    fs0,          \* the files as they were when the run started
    cmd,          \* the command (or library entry point) being run
    pc,           \* the statement about to run
    ran,          \* the statements this run has executed
    input,        \* the argument a library call was given
    text,         \* compress, analyze: the text read
    freq_table,   \* the frequency table
    nodes,        \* the HuffmanNode objects
    heap,         \* build_huffman_tree: the heap of object identities
    tree_root,    \* the root returned by build_huffman_tree / pickle.load
    code_table,   \* the dict returned by build_code_table
    encoded,      \* the bit string
    packed,       \* the packed bytes
    padding,      \* the padding count
    node,         \* decode_text: the walk position
    bitpos,       \* decode_text: how many bits the loop has consumed
    result,       \* decode_text: the list of decoded chars
    decoded,      \* the str returned by decode_text
    printed,      \* what the run has printed
    exit_status,  \* the exit status of the process, -1 while it runs
    exc,          \* the exception raised and not caught
    io_log        \* the file system calls of the run, in order

compressorVars ==
    <<fs, tampered, fs0, cmd, pc, ran, input, text, freq_table, nodes, heap, tree_root,
      code_table, encoded, packed, padding, node, bitpos, result, decoded,
      printed, exit_status, exc, io_log>>

(***************************************************************************)
(* State of github_fork_scraper_resumable.py: GitHub as the program sees   *)
(* it, the state file, and the objects and locals of one process. A fork   *)
(* is the login of its owner; a list is a sequence, indexed from 1 where   *)
(* Python indexes from 0.                                                  *)
(***************************************************************************)
VARIABLES
    repo_forks,       \* GitHub: the forks of target_repo, newest first
    gone_users,       \* GitHub: the logins whose /users/<login> answers 404
    state_file,       \* the content of STATE_FILE, or Missing
    archived,         \* STATE_FILE.completed exists
    state,            \* self.state
    all_forks,        \* get_all_forks: the list being collected
    aliased,          \* self.state['forks_list'] is the object all_forks
    page,             \* get_all_forks: the page to ask for next
    forks,            \* scrape_and_analyze: the list get_all_forks returned
    index,            \* scrape_and_analyze: the loop variable i
    user,             \* scrape_and_analyze: the user analyze_user returned
    spc,              \* the statement the scraper process is about to run
    interrupts,       \* how many times Ctrl+C was pressed so far
    fetch_interrupted,\* some run was stopped while it collected the fork list
    results           \* what main handed to save_results

scraperVars ==
    <<repo_forks, gone_users, state_file, archived, state, all_forks, aliased, page,
      forks, index, user, spc, interrupts, fetch_interrupted, results>>

(***************************************************************************)
(* State of delete_with_token.py: one run of main.                         *)
(***************************************************************************)
VARIABLES
    argv,             \* sys.argv
    token,            \* main: token
    requests,         \* the requests sent to api.github.com, with their answers
    confirm,          \* main: what input() returned
    repo,             \* main: the position of the running for loop in its list
    deleted,          \* main: deleted
    failed,           \* main: failed
    dpc,              \* the statement main is about to run
    dexit             \* the exit status of the process, Running before it ends

deleterVars == <<argv, token, requests, confirm, repo, deleted, failed, dpc, dexit>>

(***************************************************************************)
(* State of context_manager.py: one context file and the ContextManager of *)
(* the running session.                                                    *)
(***************************************************************************)
VARIABLES
    context_file,     \* the content of .ai_context.json
    context,          \* self.context, <<>> before the object is made
    cm,               \* "start" before ContextManager() has run, then "ready"
    clock,            \* what datetime.now() returns
    added             \* every change passed to add_recent_change, in call order

contextVars == <<context_file, context, cm, clock, added>>

\* the variables each program leaves alone
notCompressor == <<scraperVars, deleterVars, contextVars>>
notScraper == <<compressorVars, deleterVars, contextVars>>
notDeleter == <<compressorVars, scraperVars, contextVars>>
notContext == <<compressorVars, scraperVars, deleterVars>>

vars == <<compressorVars, scraperVars, deleterVars, contextVars>>

\* fork.get('owner', {}).get('login') of a fork without an owner login
NoLogin == 0

Missing == <<>>

\* the dict load_state returns when there is no state file
FreshState == [last_processed_index |-> -1, processed_users |-> <<>>, forks_list |-> <<>>]

\* load_state(): the saved dict if STATE_FILE exists
load_state(file) == IF file # Missing THEN file[1] ELSE FreshState

\* save_state(): the content of STATE_FILE after json.dump(self.state, f)
save_state(st) == <<st>>

\* the answer to get_forks(page): the forks of that page
get_forks(p) == Slice(repo_forks, (p - 1) * PerPage, p * PerPage)

ScraperIdle ==
    /\ repo_forks = <<>> /\ gone_users = {}
    /\ state_file = Missing /\ archived = FALSE
    /\ state = FreshState
    /\ all_forks = <<>> /\ aliased = FALSE /\ page = 1
    /\ forks = <<>> /\ index = 0 /\ user = NoLogin
    /\ spc = "idle" /\ interrupts = 0 /\ fetch_interrupted = FALSE
    /\ results = <<>>

treeVars == <<nodes, heap, tree_root>>
walkVars == <<node, bitpos, result, decoded>>
outVars  == <<printed, exit_status, exc, io_log>>

Commands == {"compress", "decompress", "analyze"}

Running == -1

\* delete_with_token.py is not running
DeleterIdle ==
    /\ argv = <<>> /\ token = "" /\ requests = <<>> /\ confirm = ""
    /\ repo = 0 /\ deleted = 0 /\ failed = 0
    /\ dpc = "idle" /\ dexit = Running

\* no context file, no ContextManager
ContextIdle ==
    /\ context_file = [kind |-> "absent"] /\ context = <<>>
    /\ cm = "idle" /\ clock = 0 /\ added = <<>>

\* the locals of a run before any statement has assigned them
FreshLocals ==
    /\ input = <<>> /\ text = <<>> /\ freq_table = <<>>
    /\ nodes = <<>> /\ heap = <<>> /\ tree_root = None
    /\ code_table = EmptyDict
    /\ encoded = <<>> /\ packed = <<>> /\ padding = 0
    /\ node = None /\ bitpos = 0 /\ result = <<>> /\ decoded = <<>>
    /\ printed = <<>> /\ exit_status = Running /\ exc = "none" /\ io_log = <<>>
    /\ ran = {}

\* a new process starts with nothing assigned
ResetLocals ==
    /\ input' = <<>> /\ text' = <<>> /\ freq_table' = <<>>
    /\ nodes' = <<>> /\ heap' = <<>> /\ tree_root' = None
    /\ code_table' = EmptyDict
    /\ encoded' = <<>> /\ packed' = <<>> /\ padding' = 0
    /\ node' = None /\ bitpos' = 0 /\ result' = <<>> /\ decoded' = <<>>
    /\ printed' = <<>> /\ exit_status' = Running /\ exc' = "none" /\ io_log' = <<>>
    /\ ran' = {}

\* statement label runs and control moves to next
Step(label, next) == pc = label /\ pc' = next /\ ran' = ran \cup {label}

\* an exception leaves the statement label and propagates to the caller
Raise(label, e) == pc = label /\ pc' = "raised" /\ ran' = ran \cup {label} /\ exc' = e

Say(msg) == printed' = Append(printed, msg)
Io(op, path) == io_log' = Append(io_log, [op |-> op, path |-> path])

\* where each function returns to, by the caller
after_tree == "codes"
after_codes == IF cmd = "tree" THEN "return"
               ELSE IF cmd = "decode" THEN "dec_entry" ELSE "encode"
after_encode == IF cmd = "codec" THEN "dec_entry" ELSE "pack"
after_pack == IF cmd = "bits" THEN "unpack" ELSE "c_write"
after_unpack == IF cmd = "bits" THEN "return" ELSE "dec_entry"
after_decode == IF cmd = "decompress" THEN "d_write" ELSE "return"

(***************************************************************************)
(* main: a new process runs one command.                                   *)
(***************************************************************************)
main(c) ==
    /\ pc \in {"idle", "exited"}
    /\ cmd' = c
    /\ pc' = (IF c = "compress" THEN "c_exists"
              ELSE IF c = "decompress" THEN "d_exists" ELSE "a_exists")
    /\ ResetLocals
    /\ fs0' = fs
    /\ UNCHANGED <<fs, tampered, notCompressor>>

\* the command function returned to main, which falls off its end
main_return ==
    /\ cmd \in Commands
    /\ Step("return", "exited")
    /\ exit_status' = 0
    /\ UNCHANGED <<fs, tampered, fs0, notCompressor, cmd, input, text, freq_table, treeVars, code_table,
                   encoded, packed, padding, walkVars, printed, exc, io_log>>

\* an exception nobody catches ends the process with a traceback and status 1
uncaught ==
    /\ cmd \in Commands
    /\ Step("raised", "exited")
    /\ exit_status' = 1
    /\ Say("Traceback")
    /\ UNCHANGED <<fs, tampered, fs0, notCompressor, cmd, input, text, freq_table, treeVars, code_table,
                   encoded, packed, padding, walkVars, exc, io_log>>

(***************************************************************************)
(* build_huffman_tree(freq_table)                                          *)
(***************************************************************************)
\* mutant of bht_entry: the empty table is not checked for
bht_entry_unchecked ==
    /\ Step("bht_entry", "bht_heap")
    /\ UNCHANGED <<fs, tampered, fs0, notCompressor, cmd, input, text, freq_table, treeVars, code_table,
                   encoded, packed, padding, walkVars, outVars>>

\* if not freq_table: return None
bht_entry ==
    /\ pc = "bht_entry"
    /\ IF freq_table = <<>>
       THEN Step("bht_entry", after_tree) /\ tree_root' = None
       ELSE Step("bht_entry", "bht_heap") /\ UNCHANGED tree_root
    /\ UNCHANGED <<fs, tampered, fs0, notCompressor, cmd, input, text, freq_table, nodes, heap, code_table,
                   encoded, packed, padding, walkVars, outVars>>

\* mutant of bht_heap: the leaves are made in the order of a set of the
\* items, which differs from run to run
bht_heap_any_order ==
    /\ Step("bht_heap", "bht_single")
    /\ nodes' = [i \in 1..Len(freq_table) |->
                    HuffmanNode(freq_table[i].char, freq_table[i].freq)]
    /\ \E order \in {f \in [1..Len(freq_table) -> 1..Len(freq_table)] :
                        \A i, j \in 1..Len(freq_table) : f[i] = f[j] => i = j} :
          heap' = heapify(nodes', order)
    /\ UNCHANGED <<fs, tampered, fs0, notCompressor, cmd, input, text, freq_table, tree_root,
                   code_table, encoded, packed, padding, walkVars, outVars>>

\* heap = [HuffmanNode(char, freq) for ...]; heapq.heapify(heap)
bht_heap ==
    /\ Step("bht_heap", "bht_single")
    /\ nodes' = [i \in 1..Len(freq_table) |->
                    HuffmanNode(freq_table[i].char, freq_table[i].freq)]
    /\ heap' = heapify(nodes', [i \in 1..Len(freq_table) |-> i])
    /\ UNCHANGED <<fs, tampered, fs0, notCompressor, cmd, input, text, freq_table, tree_root, code_table,
                   encoded, packed, padding, walkVars, outVars>>

\* mutant of single_root: the lone leaf hung on the right
single_root_right(leaf, freq) == [HuffmanNode(NoChar, freq) EXCEPT !.right = leaf]

\* the node build_huffman_tree returns for one unique character
single_root(leaf, freq) == [HuffmanNode(NoChar, freq) EXCEPT !.left = leaf]

\* if len(heap) == 1: an internal root over the lone leaf
bht_single ==
    /\ pc = "bht_single"
    /\ IF Len(heap) = 1
       THEN /\ Step("bht_single", after_tree)
            /\ nodes' = Append(nodes, single_root(heap[1], nodes[heap[1]].freq))
            /\ tree_root' = Len(nodes) + 1
       ELSE /\ Step("bht_single", "bht_loop")
            /\ UNCHANGED <<nodes, tree_root>>
    /\ UNCHANGED <<fs, tampered, fs0, notCompressor, cmd, input, text, freq_table, heap, code_table,
                   encoded, packed, padding, walkVars, outVars>>

\* mutant of merge_parent: the first node popped goes to the right
merge_parent_swapped(ns, left, right) ==
    [HuffmanNode(NoChar, ns[left].freq + ns[right].freq)
        EXCEPT !.left = right, !.right = left]

\* mutant of merge_parent: parent.right is never assigned
merge_parent_no_right(ns, left, right) ==
    [HuffmanNode(NoChar, ns[left].freq + ns[right].freq) EXCEPT !.left = left]

\* the parent the loop body makes of the two nodes it popped
merge_parent(ns, left, right) ==
    [HuffmanNode(NoChar, ns[left].freq + ns[right].freq)
        EXCEPT !.left = left, !.right = right]

\* one pass of: while len(heap) > 1
bht_merge ==
    /\ pc = "bht_loop"
    /\ Len(heap) > 1
    /\ Step("bht_loop", "bht_loop")
    /\ LET l == heappop(nodes, heap)
           r == heappop(nodes, l.heap)
       IN  /\ nodes' = Append(nodes, merge_parent(nodes, l.item, r.item))
           /\ heap' = heappush(nodes', r.heap, Len(nodes) + 1)
    /\ UNCHANGED <<fs, tampered, fs0, notCompressor, cmd, input, text, freq_table, tree_root, code_table,
                   encoded, packed, padding, walkVars, outVars>>

\* return heap[0]; an empty list has no item 0: IndexError
bht_return ==
    /\ pc = "bht_loop"
    /\ Len(heap) <= 1
    /\ IF heap = <<>>
       THEN Raise("bht_loop", "IndexError") /\ UNCHANGED tree_root
       ELSE Step("bht_loop", after_tree) /\ tree_root' = heap[1] /\ UNCHANGED exc
    /\ UNCHANGED <<fs, tampered, fs0, notCompressor, cmd, input, text, freq_table, nodes, heap, code_table,
                   encoded, packed, padding, walkVars, printed, exit_status, io_log>>

(***************************************************************************)
(* The calls of build_code_table, encode_text, pack_bits and unpack_bits.  *)
(***************************************************************************)
\* mutant of call_build_code_table: the traversal unlinks what it has visited
call_build_code_table_unlinking ==
    /\ Step("codes", after_codes)
    /\ code_table' = build_code_table(nodes, tree_root)
    /\ nodes' = [n \in 1..Len(nodes) |-> [nodes[n] EXCEPT !.left = None, !.right = None]]
    /\ UNCHANGED <<fs, tampered, fs0, notCompressor, cmd, input, text, freq_table, heap,
                   tree_root, encoded, packed, padding, walkVars, outVars>>

\* code_table = build_code_table(tree_root)
call_build_code_table ==
    /\ Step("codes", after_codes)
    /\ code_table' = build_code_table(nodes, tree_root)
    /\ UNCHANGED <<fs, tampered, fs0, notCompressor, cmd, input, text, freq_table, treeVars,
                   encoded, packed, padding, walkVars, outVars>>

\* mutant of call_encode_text: code_table.get(char, ""), unknown chars skipped
call_encode_text_skipping ==
    /\ Step("encode", after_encode)
    /\ encoded' = encode_text(SelectSeq(text, LAMBDA c : c \in DOMAIN code_table), code_table)
    /\ UNCHANGED <<fs, tampered, fs0, notCompressor, cmd, input, text, freq_table, treeVars, code_table,
                   packed, padding, walkVars, outVars>>

\* encoded = encode_text(text, code_table)
call_encode_text ==
    /\ pc = "encode"
    /\ IF encode_raises(text, code_table)
       THEN Raise("encode", "KeyError") /\ UNCHANGED encoded
       ELSE Step("encode", after_encode) /\ encoded' = encode_text(text, code_table)
            /\ UNCHANGED exc
    /\ UNCHANGED <<fs, tampered, fs0, notCompressor, cmd, input, text, freq_table, treeVars, code_table,
                   packed, padding, walkVars, printed, exit_status, io_log>>

call_pack_bits ==
    /\ Step("pack", after_pack)
    /\ packed' = pack_bits(encoded).data
    /\ padding' = pack_bits(encoded).padding
    /\ UNCHANGED <<fs, tampered, fs0, notCompressor, cmd, input, text, freq_table, treeVars, code_table,
                   encoded, walkVars, outVars>>

call_unpack_bits ==
    /\ Step("unpack", after_unpack)
    /\ encoded' = unpack_bits(packed, padding)
    /\ UNCHANGED <<fs, tampered, fs0, notCompressor, cmd, input, text, freq_table, treeVars, code_table,
                   packed, padding, walkVars, outVars>>

(***************************************************************************)
(* decode_text(encoded, root), one pass of its loop at a time.             *)
(***************************************************************************)
\* if root is None: return ""
dec_entry ==
    /\ pc = "dec_entry"
    /\ IF tree_root = None
       THEN /\ Step("dec_entry", after_decode)
            /\ decoded' = <<>>
            /\ UNCHANGED <<node, bitpos, result>>
       ELSE /\ Step("dec_entry", "dec_loop")
            /\ result' = <<>> /\ node' = tree_root /\ bitpos' = 0
            /\ UNCHANGED decoded
    /\ UNCHANGED <<fs, tampered, fs0, notCompressor, cmd, input, text, freq_table, treeVars, code_table,
                   encoded, packed, padding, outVars>>

\* the child the walk moves to on bit
child(ns, n, bit) == IF bit = "0" THEN ns[n].left ELSE ns[n].right

\* mutant of dec_step: the walk is not reset to the root after a leaf
dec_step_no_reset ==
    /\ pc = "dec_loop"
    /\ bitpos < Len(encoded)
    /\ LET nxt == child(nodes, node, encoded[bitpos + 1])
       IN  IF nxt = None
           THEN /\ Raise("dec_loop", "AttributeError")
                /\ UNCHANGED <<node, bitpos, result>>
           ELSE /\ Step("dec_loop", "dec_loop")
                /\ bitpos' = bitpos + 1
                /\ node' = nxt
                /\ IF is_leaf(nodes[nxt])
                   THEN result' = Append(result, nodes[nxt].char)
                   ELSE result' = result
                /\ UNCHANGED exc
    /\ UNCHANGED <<fs, tampered, fs0, notCompressor, cmd, input, text, freq_table, treeVars, code_table,
                   encoded, packed, padding, decoded, printed, exit_status, io_log>>

\* one pass of: for bit in encoded. None has no is_leaf: AttributeError
dec_step ==
    /\ pc = "dec_loop"
    /\ bitpos < Len(encoded)
    /\ LET nxt == child(nodes, node, encoded[bitpos + 1])
       IN  IF nxt = None
           THEN /\ Raise("dec_loop", "AttributeError")
                /\ UNCHANGED <<node, bitpos, result>>
           ELSE /\ Step("dec_loop", "dec_loop")
                /\ bitpos' = bitpos + 1
                /\ IF is_leaf(nodes[nxt])
                   THEN result' = Append(result, nodes[nxt].char) /\ node' = tree_root
                   ELSE result' = result /\ node' = nxt
                /\ UNCHANGED exc
    /\ UNCHANGED <<fs, tampered, fs0, notCompressor, cmd, input, text, freq_table, treeVars, code_table,
                   encoded, packed, padding, decoded, printed, exit_status, io_log>>

\* mutant of dec_return: a walk that ends inside the tree is an error
dec_return_strict ==
    /\ pc = "dec_loop"
    /\ bitpos = Len(encoded)
    /\ IF node # tree_root
       THEN Raise("dec_loop", "ValueError") /\ UNCHANGED decoded
       ELSE Step("dec_loop", after_decode) /\ decoded' = result /\ UNCHANGED exc
    /\ UNCHANGED <<fs, tampered, fs0, notCompressor, cmd, input, text, freq_table, treeVars, code_table,
                   encoded, packed, padding, node, bitpos, result, printed, exit_status, io_log>>

\* return "".join(result)
dec_return ==
    /\ pc = "dec_loop"
    /\ bitpos = Len(encoded)
    /\ Step("dec_loop", after_decode)
    /\ decoded' = result
    /\ UNCHANGED <<fs, tampered, fs0, notCompressor, cmd, input, text, freq_table, treeVars, code_table,
                   encoded, packed, padding, node, bitpos, result, outVars>>

(***************************************************************************)
(* compress(input_path, output_path), run as compress("in", "arc").        *)
(***************************************************************************)
\* if not input_file.exists(): print the error and return
c_exists ==
    /\ pc = "c_exists"
    /\ Io("exists", "in")
    /\ IF exists(fs, "in")
       THEN Step("c_exists", "c_read") /\ UNCHANGED printed
       ELSE Step("c_exists", "return") /\ Say("Error: File not found.")
    /\ UNCHANGED <<fs, tampered, fs0, notCompressor, cmd, input, text, freq_table, treeVars, code_table,
                   encoded, packed, padding, walkVars, exit_status, exc>>

\* with open(input_file, 'r', encoding='utf-8') as f: text = f.read()
c_read ==
    /\ pc = "c_read"
    /\ Io("read", "in")
    /\ IF exists(fs, "in")
       THEN Step("c_read", "c_empty") /\ text' = read_text(fs["in"].data) /\ UNCHANGED exc
       ELSE Raise("c_read", "FileNotFoundError") /\ UNCHANGED text
    /\ UNCHANGED <<fs, tampered, fs0, notCompressor, cmd, input, freq_table, treeVars, code_table,
                   encoded, packed, padding, walkVars, printed, exit_status>>

\* mutant of c_empty: the empty text is not checked for
c_empty_unchecked ==
    /\ Step("c_empty", "c_freq") /\ Say("Original size")
    /\ UNCHANGED <<fs, tampered, fs0, notCompressor, cmd, input, text, freq_table, treeVars, code_table,
                   encoded, packed, padding, walkVars, exit_status, exc, io_log>>

\* if not text: print the error and return; else print the original size
c_empty ==
    /\ pc = "c_empty"
    /\ IF text = <<>>
       THEN Step("c_empty", "return") /\ Say("Error: Input file is empty.")
       ELSE Step("c_empty", "c_freq") /\ Say("Original size")
    /\ UNCHANGED <<fs, tampered, fs0, notCompressor, cmd, input, text, freq_table, treeVars, code_table,
                   encoded, packed, padding, walkVars, exit_status, exc, io_log>>

\* freq_table = build_frequency_table(text)
c_freq ==
    /\ Step("c_freq", "bht_entry")
    /\ freq_table' = build_frequency_table(text)
    /\ UNCHANGED <<fs, tampered, fs0, notCompressor, cmd, input, text, treeVars, code_table,
                   encoded, packed, padding, walkVars, outVars>>

\* with open(output_path, 'wb') as f: pickle.dump(...); f.write(packed)
c_write ==
    /\ Step("c_write", "c_report")
    /\ Io("write", "arc")
    /\ fs' = [fs EXCEPT !["arc"] = HuffFile(pickle_dump(nodes, tree_root, padding), packed)]
    /\ tampered' = FALSE
    /\ UNCHANGED <<fs0, notCompressor, cmd, input, text, freq_table, treeVars, code_table,
                   encoded, packed, padding, walkVars, printed, exit_status, exc>>

\* the sizes, the ratio and the sample codes
c_report ==
    /\ Step("c_report", "return")
    /\ Io("stat", "arc")
    /\ Say("Compressed size")
    /\ UNCHANGED <<fs, tampered, fs0, notCompressor, cmd, input, text, freq_table, treeVars, code_table,
                   encoded, packed, padding, walkVars, exit_status, exc>>

(***************************************************************************)
(* decompress(input_path, output_path), run as decompress("arc", "out").   *)
(***************************************************************************)
\* mutant of d_exists: the input path is not checked for
d_exists_unchecked ==
    /\ Step("d_exists", "d_load")
    /\ Io("exists", "arc")
    /\ UNCHANGED <<fs, tampered, fs0, notCompressor, cmd, input, text, freq_table, treeVars, code_table,
                   encoded, packed, padding, walkVars, printed, exit_status, exc>>

\* if not input_file.exists(): print the error and return
d_exists ==
    /\ pc = "d_exists"
    /\ Io("exists", "arc")
    /\ IF exists(fs, "arc")
       THEN Step("d_exists", "d_load") /\ UNCHANGED printed
       ELSE Step("d_exists", "return") /\ Say("Error: File not found.")
    /\ UNCHANGED <<fs, tampered, fs0, notCompressor, cmd, input, text, freq_table, treeVars, code_table,
                   encoded, packed, padding, walkVars, exit_status, exc>>

\* mutant of d_load: the output file is opened for writing before the
\* archive is read
d_load_output_first ==
    /\ pc = "d_load"
    /\ io_log' = io_log \o <<[op |-> "write", path |-> "out"], [op |-> "read", path |-> "arc"]>>
    /\ fs' = [fs EXCEPT !["out"] = TextFile(<<>>)]
    /\ IF ~exists(fs, "arc") \/ pickle_raises(fs["arc"])
       THEN /\ Raise("d_load", IF exists(fs, "arc") THEN "UnpicklingError"
                                                     ELSE "FileNotFoundError")
            /\ UNCHANGED <<nodes, tree_root, padding, packed>>
       ELSE /\ Step("d_load", "unpack")
            /\ nodes' = fs["arc"].pickled.tree
            /\ tree_root' = fs["arc"].pickled.root
            /\ padding' = fs["arc"].pickled.padding
            /\ packed' = fs["arc"].packed
            /\ UNCHANGED exc
    /\ UNCHANGED <<tampered, fs0, notCompressor, cmd, input, text, freq_table, heap,
                   code_table, encoded, walkVars, printed, exit_status>>

\* tree_root, padding = pickle.load(f); packed = f.read()
d_load ==
    /\ pc = "d_load"
    /\ Io("read", "arc")
    /\ IF ~exists(fs, "arc") \/ pickle_raises(fs["arc"])
       THEN /\ Raise("d_load", IF exists(fs, "arc") THEN "UnpicklingError"
                                                     ELSE "FileNotFoundError")
            /\ UNCHANGED <<nodes, tree_root, padding, packed>>
       ELSE /\ Step("d_load", "unpack")
            /\ nodes' = fs["arc"].pickled.tree
            /\ tree_root' = fs["arc"].pickled.root
            /\ padding' = fs["arc"].pickled.padding
            /\ packed' = fs["arc"].packed
            /\ UNCHANGED exc
    /\ UNCHANGED <<fs, tampered, fs0, notCompressor, cmd, input, text, freq_table, heap, code_table,
                   encoded, walkVars, printed, exit_status>>

\* with open(output_path, 'w', encoding='utf-8') as f: f.write(decoded)
d_write ==
    /\ Step("d_write", "d_report")
    /\ Io("write", "out")
    /\ fs' = [fs EXCEPT !["out"] = TextFile(write_text(decoded))]
    /\ UNCHANGED <<tampered, fs0, notCompressor, cmd, input, text, freq_table, treeVars, code_table,
                   encoded, packed, padding, walkVars, printed, exit_status, exc>>

\* the two lines printed after the output is written
d_report ==
    /\ Step("d_report", "return")
    /\ Say("Decompressed to")
    /\ UNCHANGED <<fs, tampered, fs0, notCompressor, cmd, input, text, freq_table, treeVars, code_table,
                   encoded, packed, padding, walkVars, exit_status, exc, io_log>>

(***************************************************************************)
(* analyze(input_path), run as analyze("in").                              *)
(***************************************************************************)
\* if not input_file.exists(): print the error and return
a_exists ==
    /\ pc = "a_exists"
    /\ Io("exists", "in")
    /\ IF exists(fs, "in")
       THEN Step("a_exists", "a_read") /\ UNCHANGED printed
       ELSE Step("a_exists", "return") /\ Say("Error: File not found.")
    /\ UNCHANGED <<fs, tampered, fs0, notCompressor, cmd, input, text, freq_table, treeVars, code_table,
                   encoded, packed, padding, walkVars, exit_status, exc>>

\* with open(input_file, 'r', encoding='utf-8') as f: text = f.read()
a_read ==
    /\ pc = "a_read"
    /\ Io("read", "in")
    /\ IF exists(fs, "in")
       THEN Step("a_read", "a_report") /\ text' = read_text(fs["in"].data) /\ UNCHANGED exc
       ELSE Raise("a_read", "FileNotFoundError") /\ UNCHANGED text
    /\ UNCHANGED <<fs, tampered, fs0, notCompressor, cmd, input, freq_table, treeVars, code_table,
                   encoded, packed, padding, walkVars, printed, exit_status>>

\* freq_table = build_frequency_table(text) and the printed report
a_report ==
    /\ Step("a_report", "return")
    /\ freq_table' = build_frequency_table(text)
    /\ Say("File Analysis")
    /\ UNCHANGED <<fs, tampered, fs0, notCompressor, cmd, input, text, treeVars, code_table,
                   encoded, packed, padding, walkVars, exit_status, exc, io_log>>

(***************************************************************************)
(* The archive is a file like any other: between two runs something else   *)
(* may change it, once per archive here. decompress reads whatever is at   *)
(* its input path.                                                         *)
(***************************************************************************)
FlipBit(bits, i) == [bits EXCEPT ![i] = IF @ = "0" THEN "1" ELSE "0"]

\* one bit of the payload is flipped
tamper_flip ==
    /\ pc \in {"idle", "exited"} /\ fs["arc"].kind = "huff" /\ ~tampered
    /\ \E i \in 1..(8 * Len(fs["arc"].packed)) :
          fs' = [fs EXCEPT !["arc"].packed = pack_loop(FlipBit(join_bytes(@), i))]
    /\ tampered' = TRUE
    /\ UNCHANGED <<fs0, notCompressor, cmd, pc, ran, input, text, freq_table, treeVars, code_table,
                   encoded, packed, padding, walkVars, outVars>>

\* the archive loses its last byte
tamper_truncate ==
    /\ pc \in {"idle", "exited"} /\ fs["arc"].kind = "huff" /\ ~tampered
    /\ fs["arc"].packed # <<>>
    /\ fs' = [fs EXCEPT !["arc"].packed = SubSeq(@, 1, Len(@) - 1)]
    /\ tampered' = TRUE
    /\ UNCHANGED <<fs0, notCompressor, cmd, pc, ran, input, text, freq_table, treeVars, code_table,
                   encoded, packed, padding, walkVars, outVars>>

\* the archive is cut inside the pickle
tamper_header ==
    /\ pc \in {"idle", "exited"} /\ fs["arc"].kind = "huff" /\ ~tampered
    /\ fs' = [fs EXCEPT !["arc"] = Garbage]
    /\ tampered' = TRUE
    /\ UNCHANGED <<fs0, notCompressor, cmd, pc, ran, input, text, freq_table, treeVars, code_table,
                   encoded, packed, padding, walkVars, outVars>>

(***************************************************************************)
(* The command line: any sequence of runs of the three commands.           *)
(***************************************************************************)
InputFiles == {Absent} \cup {TextFile(d) : d \in SeqsUpTo(FileAlphabet, MaxLen)}

Init ==
    /\ ScraperIdle /\ DeleterIdle /\ ContextIdle
    /\ fs \in {f \in [Paths -> InputFiles \cup {Garbage}] :
                 /\ f["in"] \in InputFiles
                 /\ f["arc"] \in {Absent, Garbage}
                 /\ f["out"] \in {Absent, TextFile(<<"b">>)}}
    /\ tampered = FALSE /\ fs0 = fs
    /\ cmd = "none" /\ pc = "idle"
    /\ FreshLocals

Next ==
    \/ \E c \in Commands : main(c)
    \/ main_return \/ uncaught
    \/ c_exists \/ c_read \/ c_empty \/ c_freq
    \/ bht_entry \/ bht_heap \/ bht_single \/ bht_merge \/ bht_return
    \/ call_build_code_table \/ call_encode_text \/ call_pack_bits
    \/ c_write \/ c_report
    \/ d_exists \/ d_load \/ call_unpack_bits
    \/ dec_entry \/ dec_step \/ dec_return
    \/ d_write \/ d_report
    \/ a_exists \/ a_read \/ a_report
    \/ tamper_flip \/ tamper_truncate \/ tamper_header

Spec == Init /\ [][Next]_vars

(***************************************************************************)
(* The tree builder and the code table generator as a library: called on   *)
(* any frequency table, the empty one included.                            *)
(***************************************************************************)
NoFiles == [p \in Paths |-> Absent]

\* the dicts of up to four distinct symbols with counts 1..MaxFreq, in
\* every insertion order
DistinctSeqs ==
    {c \in SeqsUpTo(Alphabet, Cardinality(Alphabet)) :
        \A i, j \in 1..Len(c) : i # j => c[i] # c[j]}

Tables ==
    UNION {{[i \in 1..Len(cs) |-> [char |-> cs[i], freq |-> fq[i]]] :
               fq \in [1..Len(cs) -> 1..MaxFreq]} : cs \in DistinctSeqs}

InitTree ==
    /\ ScraperIdle /\ DeleterIdle /\ ContextIdle
    /\ fs = NoFiles /\ tampered = FALSE /\ fs0 = fs
    /\ cmd = "tree" /\ pc = "bht_entry"
    /\ freq_table \in Tables
    /\ input = <<>> /\ text = <<>>
    /\ nodes = <<>> /\ heap = <<>> /\ tree_root = None
    /\ code_table = EmptyDict
    /\ encoded = <<>> /\ packed = <<>> /\ padding = 0
    /\ node = None /\ bitpos = 0 /\ result = <<>> /\ decoded = <<>>
    /\ printed = <<>> /\ exit_status = Running /\ exc = "none" /\ io_log = <<>>
    /\ ran = {}

NextTree ==
    \/ bht_entry \/ bht_heap \/ bht_single \/ bht_merge \/ bht_return
    \/ call_build_code_table

SpecTree == InitTree /\ [][NextTree]_vars

(***************************************************************************)
(* pack_bits and unpack_bits as a library: called on any bit string.       *)
(***************************************************************************)
InitBits ==
    /\ ScraperIdle /\ DeleterIdle /\ ContextIdle
    /\ fs = NoFiles /\ tampered = FALSE /\ fs0 = fs
    /\ cmd = "bits" /\ pc = "pack"
    /\ input \in SeqsUpTo(Bit, MaxBits)
    /\ encoded = input
    /\ text = <<>> /\ freq_table = <<>>
    /\ nodes = <<>> /\ heap = <<>> /\ tree_root = None
    /\ code_table = EmptyDict
    /\ packed = <<>> /\ padding = 0
    /\ node = None /\ bitpos = 0 /\ result = <<>> /\ decoded = <<>>
    /\ printed = <<>> /\ exit_status = Running /\ exc = "none" /\ io_log = <<>>
    /\ ran = {}

NextBits == call_pack_bits \/ call_unpack_bits

SpecBits == InitBits /\ [][NextBits]_vars

(***************************************************************************)
(* The encoder and the decoder as a library: a frequency table is built    *)
(* from the text input, the tree and the code table from that table; then  *)
(* encode_text is called on a text (input itself, or any short text, whose *)
(* symbols the table may lack) and decode_text on the bits it returns.     *)
(***************************************************************************)
\* the literal example of the documentation: 4 x a, 3 x b, 2 x c
Example == <<"a", "a", "a", "a", "b", "b", "b", "c", "c">>

\* a text whose tree is three levels deep
Skewed == <<"a", "a", "a", "a", "b", "b", "c", "d">>

CodecAlphabet == {"a", "b", "c"}

CodecTexts == SeqsUpTo(CodecAlphabet, MaxText) \cup {Example, Skewed}

OtherTexts == SeqsUpTo(CodecAlphabet, MaxText - 2)

\* freq_table = build_frequency_table(input)
call_build_frequency_table ==
    /\ Step("lib_freq", "bht_entry")
    /\ freq_table' = build_frequency_table(input)
    /\ UNCHANGED <<fs, tampered, fs0, notCompressor, cmd, input, text, treeVars, code_table,
                   encoded, packed, padding, walkVars, outVars>>

InitCodec ==
    /\ ScraperIdle /\ DeleterIdle /\ ContextIdle
    /\ fs = NoFiles /\ tampered = FALSE /\ fs0 = fs
    /\ cmd = "codec" /\ pc = "lib_freq"
    /\ input \in CodecTexts
    /\ text \in {input} \cup OtherTexts
    /\ freq_table = <<>>
    /\ nodes = <<>> /\ heap = <<>> /\ tree_root = None
    /\ code_table = EmptyDict
    /\ encoded = <<>> /\ packed = <<>> /\ padding = 0
    /\ node = None /\ bitpos = 0 /\ result = <<>> /\ decoded = <<>>
    /\ printed = <<>> /\ exit_status = Running /\ exc = "none" /\ io_log = <<>>
    /\ ran = {}

NextCodec ==
    \/ call_build_frequency_table
    \/ bht_entry \/ bht_heap \/ bht_single \/ bht_merge \/ bht_return
    \/ call_build_code_table \/ call_encode_text
    \/ dec_entry \/ dec_step \/ dec_return

SpecCodec == InitCodec /\ [][NextCodec]_vars

(***************************************************************************)
(* decode_text called with the tree of a text and any bit string:          *)
(*   root = build_huffman_tree(build_frequency_table(input))               *)
(*   decoded = decode_text(encoded, root)                                  *)
(* The code table is built as well, to state what the bits stand for.      *)
(***************************************************************************)
InitDecode ==
    /\ ScraperIdle /\ DeleterIdle /\ ContextIdle
    /\ fs = NoFiles /\ tampered = FALSE /\ fs0 = fs
    /\ cmd = "decode" /\ pc = "lib_freq"
    /\ input \in (SeqsUpTo(CodecAlphabet, MaxText - 2) \ {<<>>}) \cup {Example, Skewed}
    /\ encoded \in SeqsUpTo(Bit, MaxCode)
    /\ text = <<>> /\ freq_table = <<>>
    /\ nodes = <<>> /\ heap = <<>> /\ tree_root = None
    /\ code_table = EmptyDict
    /\ packed = <<>> /\ padding = 0
    /\ node = None /\ bitpos = 0 /\ result = <<>> /\ decoded = <<>>
    /\ printed = <<>> /\ exit_status = Running /\ exc = "none" /\ io_log = <<>>
    /\ ran = {}

NextDecode ==
    \/ call_build_frequency_table
    \/ bht_entry \/ bht_heap \/ bht_single \/ bht_merge \/ bht_return
    \/ call_build_code_table
    \/ dec_entry \/ dec_step \/ dec_return

SpecDecode == InitDecode /\ [][NextDecode]_vars

(***************************************************************************)
(* calculate_entropy(freq_table, total). The float it returns is           *)
(*     H = - sum of p * log2(p),  p = freq / total.                        *)
(* Kept exact: the pair (num, den) of naturals with                        *)
(*     2 ^ (total * H) = num / den,                                        *)
(* where each pass of the loop multiplies num by total ^ freq and den by   *)
(* freq ^ freq. A natural is the sequence of its base-10000 digits, least  *)
(* significant first.                                                      *)
(***************************************************************************)
RECURSIVE big_mul(_, _, _)
big_mul(b, m, carry) ==
    IF b = <<>>
    THEN IF carry = 0 THEN <<>>
         ELSE <<carry % 10000>> \o big_mul(<<>>, m, carry \div 10000)
    ELSE LET v == Head(b) * m + carry
         IN  <<v % 10000>> \o big_mul(Tail(b), m, v \div 10000)

\* b * m ^ e
RECURSIVE big_mul_pow(_, _, _)
big_mul_pow(b, m, e) == IF e = 0 THEN b ELSE big_mul_pow(big_mul(b, m, 0), m, e - 1)

RECURSIVE big_le_from(_, _, _)
big_le_from(a, b, i) ==
    IF i = 0 THEN TRUE
    ELSE IF a[i] # b[i] THEN a[i] < b[i] ELSE big_le_from(a, b, i - 1)

\* a <= b
big_le(a, b) == Len(a) < Len(b) \/ (Len(a) = Len(b) /\ big_le_from(a, b, Len(a)))

RECURSIVE entropy_loop(_, _, _)
entropy_loop(freqs, total, acc) ==
    IF freqs = <<>> THEN acc
    ELSE entropy_loop(Tail(freqs), total,
                      [num |-> big_mul_pow(acc.num, total, Head(freqs).freq),
                       den |-> big_mul_pow(acc.den, Head(freqs).freq, Head(freqs).freq)])

calculate_entropy(table, total) == entropy_loop(table, total, [num |-> <<1>>, den |-> <<1>>])

(***************************************************************************)
(* github_fork_scraper_resumable.py. GitHub answers every request: a       *)
(* listing with 200, a user with 200 or 404. The state file is written in  *)
(* one piece. Ctrl+C raises KeyboardInterrupt in whatever statement is     *)
(* running.                                                                *)
(***************************************************************************)
github == <<repo_forks, gone_users>>

\* main(): a new process; GitHubForkScraper.__init__ loads the state
scraper_main ==
    /\ spc \in {"idle", "stopped", "done"}
    /\ spc' = "gaf_entry"
    /\ state' = load_state(state_file)
    /\ all_forks' = <<>> /\ aliased' = FALSE /\ page' = 1
    /\ forks' = <<>> /\ index' = 0 /\ user' = NoLogin /\ results' = <<>>
    /\ UNCHANGED <<github, state_file, archived, interrupts, fetch_interrupted, notScraper>>

\* get_all_forks: if the state holds a forks list, return it
get_all_forks_entry ==
    /\ spc = "gaf_entry"
    /\ IF state.forks_list # <<>>
       THEN /\ forks' = state.forks_list
            /\ spc' = "sa_entry"
            /\ UNCHANGED <<all_forks, page>>
       ELSE /\ all_forks' = <<>> /\ page' = 1
            /\ spc' = "gaf_page"
            /\ UNCHANGED forks
    /\ UNCHANGED <<github, state_file, archived, state, aliased, index, user,
                   interrupts, fetch_interrupted, results, notScraper>>

\* one pass of: while True, in get_all_forks. make_request saves the state
\* before it waits for the rate limit (waited).
get_all_forks_page ==
    /\ spc = "gaf_page"
    /\ \E waited \in BOOLEAN :
          LET got == get_forks(page)
              collected == all_forks \o got
              more == got # <<>> /\ Len(got) >= PerPage
              periodic == more /\ (page + 1) % 5 = 0
              extended == IF aliased THEN [state EXCEPT !.forks_list = collected]
                          ELSE state
          IN  /\ all_forks' = collected
              /\ state' = IF periodic THEN [state EXCEPT !.forks_list = collected]
                           ELSE extended
              /\ aliased' = (aliased \/ periodic)
              /\ page' = IF more THEN page + 1 ELSE page
              /\ state_file' = IF periodic THEN save_state(state')
                                ELSE IF waited THEN save_state(state)
                                ELSE state_file
              /\ spc' = IF more THEN "gaf_page" ELSE "gaf_return"
    /\ UNCHANGED <<github, archived, forks, index, user, interrupts, fetch_interrupted,
                   results, notScraper>>

\* the end of get_all_forks: the list goes into the state, which is saved
get_all_forks_return ==
    /\ spc = "gaf_return"
    /\ state' = [state EXCEPT !.forks_list = all_forks]
    /\ aliased' = TRUE
    /\ state_file' = save_state(state')
    /\ forks' = all_forks
    /\ spc' = "sa_entry"
    /\ UNCHANGED <<github, archived, all_forks, page, index, user, interrupts,
                   fetch_interrupted, results, notScraper>>

\* Ctrl+C during the request of get_forks: make_request saves the state
\* and raises again; main prints and the process ends
get_forks_interrupted ==
    /\ spc = "gaf_page"
    /\ interrupts < MaxInterrupts
    /\ interrupts' = interrupts + 1
    /\ fetch_interrupted' = TRUE
    /\ state_file' = save_state(state)
    /\ spc' = "stopped"
    /\ UNCHANGED <<github, archived, state, all_forks, aliased, page, forks, index, user,
                   results, notScraper>>

\* scrape_and_analyze up to its loop: no forks, return []; else the resume point
scrape_and_analyze_entry ==
    /\ spc = "sa_entry"
    /\ IF forks = <<>>
       THEN spc' = "done" /\ results' = <<>> /\ UNCHANGED index
       ELSE spc' = "sa_loop" /\ index' = state.last_processed_index + 1
            /\ UNCHANGED results
    /\ UNCHANGED <<github, state_file, archived, state, all_forks, aliased, page, forks,
                   user, interrupts, fetch_interrupted, notScraper>>

\* for i in range(start_index, total_forks): the fork and its username
sa_loop ==
    /\ spc = "sa_loop"
    /\ IF index >= Len(forks)
       THEN spc' = "sa_return" /\ UNCHANGED index
       ELSE IF forks[index + 1] = NoLogin
            THEN spc' = "sa_loop" /\ index' = index + 1
            ELSE spc' = "sa_details" /\ UNCHANGED index
    /\ UNCHANGED <<github, state_file, archived, state, all_forks, aliased, page, forks,
                   user, interrupts, fetch_interrupted, results, notScraper>>

\* user_data = self.get_user_details(username); if not user_data: continue
sa_details ==
    /\ spc = "sa_details"
    /\ \E waited \in BOOLEAN :
          state_file' = IF waited THEN save_state(state) ELSE state_file
    /\ IF forks[index + 1] \in gone_users
       THEN spc' = "sa_loop" /\ index' = index + 1
       ELSE spc' = "sa_analyze" /\ UNCHANGED index
    /\ UNCHANGED <<github, archived, state, all_forks, aliased, page, forks,
                   user, interrupts, fetch_interrupted, results, notScraper>>

\* user = self.analyze_user(user_data, fork), which asks for the user's repos
sa_analyze ==
    /\ spc = "sa_analyze"
    /\ \E waited \in BOOLEAN :
          state_file' = IF waited THEN save_state(state) ELSE state_file
    /\ user' = forks[index + 1]
    /\ spc' = "sa_append"
    /\ UNCHANGED <<github, archived, state, all_forks, aliased, page, forks,
                   index, interrupts, fetch_interrupted, results, notScraper>>

\* processed_users.append(user): processed_users is the list in self.state
sa_append ==
    /\ spc = "sa_append"
    /\ state' = [state EXCEPT !.processed_users = Append(@, user)]
    /\ spc' = "sa_update"
    /\ UNCHANGED <<github, state_file, archived, all_forks, aliased, page, forks,
                   index, user, interrupts, fetch_interrupted, results, notScraper>>

\* self.state['last_processed_index'] = i
\* self.state['processed_users'] = processed_users
sa_update ==
    /\ spc = "sa_update"
    /\ state' = [state EXCEPT !.last_processed_index = index]
    /\ spc' = "sa_save"
    /\ UNCHANGED <<github, state_file, archived, all_forks, aliased, page, forks,
                   index, user, interrupts, fetch_interrupted, results, notScraper>>

\* if (i + 1) % 5 == 0: self.save_state(); then the next pass of the loop
sa_save ==
    /\ spc = "sa_save"
    /\ state_file' = IF (index + 1) % 5 = 0 THEN save_state(state) ELSE state_file
    /\ index' = index + 1
    /\ spc' = "sa_loop"
    /\ UNCHANGED <<github, archived, state, all_forks, aliased, page, forks,
                   user, interrupts, fetch_interrupted, results, notScraper>>

\* the statements inside the try of the loop
InTry == {"sa_details", "sa_analyze", "sa_append", "sa_update", "sa_save"}

\* Ctrl+C inside the try of the loop: except KeyboardInterrupt saves the
\* state and raises again; main prints and the process ends
sa_interrupted ==
    /\ spc \in InTry
    /\ interrupts < MaxInterrupts
    /\ interrupts' = interrupts + 1
    /\ state_file' = save_state(state)
    /\ spc' = "stopped"
    /\ UNCHANGED <<github, archived, state, all_forks, aliased, page, forks, index, user,
                   fetch_interrupted, results, notScraper>>

\* Ctrl+C in a statement no try of the scraper covers: only main catches
\* it, nothing is saved
interrupted_outside_try ==
    /\ spc \in {"gaf_entry", "gaf_page", "gaf_return", "sa_entry", "sa_loop", "sa_return"}
    /\ interrupts < MaxInterrupts
    /\ interrupts' = interrupts + 1
    /\ fetch_interrupted' = (fetch_interrupted \/ spc \in {"gaf_page", "gaf_return"})
    /\ spc' = "stopped"
    /\ UNCHANGED <<github, state_file, archived, state, all_forks, aliased, page, forks,
                   index, user, results, notScraper>>

\* after the loop: the state file is renamed, the users go to save_results
sa_return ==
    /\ spc = "sa_return"
    /\ archived' = (archived \/ state_file # Missing)
    /\ state_file' = Missing
    /\ results' = state.processed_users
    /\ spc' = "done"
    /\ UNCHANGED <<github, state, all_forks, aliased, page, forks, index, user,
                   interrupts, fetch_interrupted, notScraper>>

\* the repository's forks: logins 1, 2, ..., one of them possibly missing
ForkLists ==
    {[k \in 1..n |-> IF k = ghost THEN NoLogin ELSE k] : n \in 0..MaxForks, ghost \in {0, 2}}

InitScraper ==
    /\ DeleterIdle /\ ContextIdle
    /\ fs = NoFiles /\ tampered = FALSE /\ fs0 = fs
    /\ cmd = "none" /\ pc = "idle"
    /\ FreshLocals
    /\ repo_forks \in ForkLists
    /\ gone_users \in {{}, {3}}
    /\ state_file = Missing /\ archived = FALSE
    /\ state = FreshState
    /\ all_forks = <<>> /\ aliased = FALSE /\ page = 1
    /\ forks = <<>> /\ index = 0 /\ user = NoLogin
    /\ spc = "idle" /\ interrupts = 0 /\ fetch_interrupted = FALSE
    /\ results = <<>>

NextScraper ==
    \/ scraper_main
    \/ get_all_forks_entry \/ get_all_forks_page \/ get_all_forks_return
    \/ get_forks_interrupted
    \/ scrape_and_analyze_entry \/ sa_loop \/ sa_details \/ sa_analyze
    \/ sa_append \/ sa_update \/ sa_save
    \/ sa_interrupted \/ interrupted_outside_try
    \/ sa_return

SpecScraper == InitScraper /\ [][NextScraper]_vars

\* no run of the compressor and none of the scraper
OthersIdle ==
    /\ ScraperIdle
    /\ fs = NoFiles /\ tampered = FALSE /\ fs0 = fs
    /\ cmd = "none" /\ pc = "idle"
    /\ FreshLocals

(***************************************************************************)
(* delete_with_token.py, run as: python3 delete_with_token.py [token].     *)
(* The three lists are cut to their first MaxRepos names.                  *)
(***************************************************************************)
FORKS == SubSeq(<<"camera-heart-rate-monitor-web", "camera-heart-rate-monitor",
                  "whisper-plus">>, 1, MaxRepos)
BOTS == SubSeq(<<"ai-agent-waf", "agent-hr", "agent-finance">>, 1, MaxRepos)
UNUSED == SubSeq(<<"attack-surface-ai", "ai-security-suite",
                   "You-Dont-Need-jQuery">>, 1, MaxRepos)

\* what the user may type at the prompt
Typed == {"DELETE ALL", "delete all", "DELETE ALL ", "yes", ""}

\* the status codes GitHub may answer GET /user with, for a token
user_statuses(t) == IF t = "ghp_valid" THEN {200, 500} ELSE {401}

Request(method, path, t, status) ==
    [method |-> method, path |-> path, token |-> t, status |-> status]

\* delete_repo(repo_name, token): what it returns, by the status of the answer
delete_repo(status) ==
    IF status = 204 THEN [success |-> TRUE, msg |-> "Deleted"]
    ELSE IF status = 404 THEN [success |-> FALSE, msg |-> "Not found (already deleted?)"]
    ELSE IF status = 403
         THEN [success |-> FALSE, msg |-> "Forbidden - token lacks delete_repo permission"]
    ELSE [success |-> FALSE, msg |-> "HTTP"]

\* if len(sys.argv) < 2: print the usage; sys.exit(1)
dt_usage ==
    /\ dpc = "main"
    /\ Len(argv) < 2
    /\ dpc' = "exited" /\ dexit' = 1
    /\ UNCHANGED <<notDeleter, argv, token, requests, confirm, repo, deleted, failed>>

\* token = sys.argv[1]; response = requests.get(".../user"); exit 1 unless 200
dt_verify ==
    /\ dpc = "main"
    /\ Len(argv) >= 2
    /\ token' = argv[2]
    /\ \E status \in user_statuses(argv[2]) :
          /\ requests' = Append(requests, Request("GET", "user", argv[2], status))
          /\ IF status # 200
             THEN dpc' = "exited" /\ dexit' = 1
             ELSE dpc' = "input" /\ UNCHANGED dexit
    /\ UNCHANGED <<notDeleter, argv, confirm, repo, deleted, failed>>

\* mutant of dt_input: the answer is compared without case and blanks
dt_input_lenient ==
    /\ dpc = "input"
    /\ \E typed \in Typed :
          /\ confirm' = typed
          /\ IF typed \notin {"DELETE ALL", "delete all", "DELETE ALL "}
             THEN dpc' = "exited" /\ dexit' = 0 /\ UNCHANGED repo
             ELSE dpc' = "forks" /\ repo' = 1 /\ UNCHANGED dexit
    /\ UNCHANGED <<notDeleter, argv, token, requests, deleted, failed>>

\* confirm = input(...); if confirm != "DELETE ALL": print("Aborted."); sys.exit(0)
dt_input ==
    /\ dpc = "input"
    /\ \E typed \in Typed :
          /\ confirm' = typed
          /\ IF typed # "DELETE ALL"
             THEN dpc' = "exited" /\ dexit' = 0 /\ UNCHANGED repo
             ELSE dpc' = "forks" /\ repo' = 1 /\ UNCHANGED dexit
    /\ UNCHANGED <<notDeleter, argv, token, requests, deleted, failed>>

\* one pass of a for loop over list: delete_repo(list[repo], token), or the
\* end of the loop and the start of the one at label next; GitHub answers
\* DELETE /repos/yksanjo/<name> with one of four status codes
dt_loop(label, list, next, counting) ==
    /\ dpc = label
    /\ IF repo > Len(list)
       THEN /\ dpc' = next /\ repo' = 1
            /\ UNCHANGED <<requests, deleted, failed>>
       ELSE /\ \E status \in {204, 404, 403, 500} :
                 /\ requests' = Append(requests,
                                       Request("DELETE", list[repo], token, status))
                 /\ IF counting /\ delete_repo(status).success
                    THEN deleted' = deleted + 1 /\ failed' = failed
                    ELSE IF counting
                    THEN deleted' = deleted /\ failed' = failed + 1
                    ELSE UNCHANGED <<deleted, failed>>
            /\ repo' = repo + 1 /\ dpc' = label
    /\ UNCHANGED <<notDeleter, argv, token, confirm, dexit>>

\* for repo in FORKS: success, msg = delete_repo(repo, token)
dt_forks == dt_loop("forks", FORKS, "bots", FALSE)

\* for repo in BOTS: success, msg = delete_repo(repo, token)
dt_bots == dt_loop("bots", BOTS, "unused", FALSE)

\* deleted = failed = 0; for repo in UNUSED: ...; count deleted and failed
dt_unused == dt_loop("unused", UNUSED, "summary", TRUE)

\* print the summary; main returns
dt_summary ==
    /\ dpc = "summary"
    /\ dpc' = "exited" /\ dexit' = 0
    /\ UNCHANGED <<notDeleter, argv, token, requests, confirm, repo, deleted, failed>>

InitDeleter ==
    /\ OthersIdle /\ ContextIdle
    \* the command lines: no argument, a token GitHub knows, one it does not
    /\ argv \in {<<"delete_with_token.py">>,
                 <<"delete_with_token.py", "ghp_valid">>,
                 <<"delete_with_token.py", "ghp_revoked">>}
    /\ token = "" /\ requests = <<>> /\ confirm = ""
    /\ repo = 0 /\ deleted = 0 /\ failed = 0
    /\ dpc = "main" /\ dexit = Running

NextDeleter ==
    \/ dt_usage \/ dt_verify \/ dt_input
    \/ dt_forks \/ dt_bots \/ dt_unused \/ dt_summary

SpecDeleter == InitDeleter /\ [][NextDeleter]_vars

(***************************************************************************)
(* context_manager.py: sessions that make a ContextManager on one context  *)
(* file and call its methods.                                              *)
(***************************************************************************)
\* [-10:] of add_recent_change
KeepLast == 10

\* seq[-n:]
LastOf(seq, n) ==
    IF Len(seq) <= n THEN seq ELSE SubSeq(seq, Len(seq) - n + 1, Len(seq))

\* _default_context(), made at time now
default_context(now) == [name |-> "", last_updated |-> now, recent_changes |-> <<>>]

\* json.dump(self.context, f): the content of the file afterwards
save_context(ctx) == [kind |-> "json", value |-> ctx]

\* load_context(): what json.load gives, the default if the file is missing
\* or no JSON
load_context(file, now) ==
    IF file.kind = "json" THEN file.value ELSE default_context(now)

\* cm = ContextManager(): a session starts and loads the context
ContextManager_init ==
    /\ cm \in {"start", "ready"}
    /\ context' = load_context(context_file, clock)
    /\ cm' = "ready"
    /\ UNCHANGED <<notContext, context_file, clock, added>>

\* update_project_info(name=...)
update_project_info ==
    /\ cm = "ready"
    /\ \E name \in {"p"} :
          context' = [context EXCEPT !.name = name, !.last_updated = clock]
    /\ context_file' = save_context(context')
    /\ UNCHANGED <<notContext, cm, clock, added>>

\* mutant of add_recent_change: the first ten entries are kept
add_recent_change_keep_first ==
    /\ cm = "ready"
    /\ Len(added) < MaxChanges
    /\ \E change \in {"x", "y"} :
          /\ LET appended == Append(context.recent_changes,
                                    [timestamp |-> clock, change |-> change])
             IN  context' = [context EXCEPT !.recent_changes =
                                SubSeq(appended, 1, IF Len(appended) < KeepLast
                                                    THEN Len(appended) ELSE KeepLast)]
          /\ added' = Append(added, change)
    /\ context_file' = save_context(context')
    /\ clock' = clock + 1
    /\ UNCHANGED <<notContext, cm>>

\* add_recent_change(change): append, keep the last ten, save_context()
add_recent_change ==
    /\ cm = "ready"
    /\ Len(added) < MaxChanges
    /\ \E change \in {"x", "y"} :
          /\ LET appended == Append(context.recent_changes,
                                    [timestamp |-> clock, change |-> change])
             IN  context' = [context EXCEPT !.recent_changes = LastOf(appended, KeepLast)]
          /\ added' = Append(added, change)
    /\ context_file' = save_context(context')
    /\ clock' = clock + 1
    /\ UNCHANGED <<notContext, cm>>

InitContext ==
    /\ OthersIdle /\ DeleterIdle
    /\ context_file \in {[kind |-> "absent"], [kind |-> "corrupt"]}
    /\ context = <<>>
    /\ cm = "start" /\ clock = 0 /\ added = <<>>

NextContext == ContextManager_init \/ update_project_info \/ add_recent_change

SpecContext == InitContext /\ [][NextContext]_vars

(***************************************************************************)
(* Properties.                                                             *)
(***************************************************************************)
\* the text compress reads from the input file
SourceText == read_text(fs["in"].data)

\* the archive at "arc" is what compress wrote for the input file, unchanged
ArchiveOfInput == fs["arc"].kind = "huff" /\ ~tampered /\ fs["in"].kind = "text"

\* decompress has written its output and returned
Decompressed == cmd = "decompress" /\ pc \in {"d_report", "return", "exited"}

SingleSymbol(s) == s # <<>> /\ \A i \in 1..Len(s) : s[i] = s[1]

IsPrefix(a, b) == Len(a) <= Len(b) /\ SubSeq(b, 1, Len(a)) = a

(* C1: whenever decompress has run on the archive compress wrote for a     *)
(* non-empty input text S, the decoded text and the output file are S      *)
(* exactly, symbol for symbol, with nothing decoded from the padding bits. *)
RoundTrip ==
    (Decompressed /\ ArchiveOfInput) =>
        /\ decoded = SourceText
        /\ Len(decoded) = Len(SourceText)
        /\ fs["out"] = TextFile(SourceText)

\* reached: a three-symbol text whose payload carries padding bits came back
RoundTripWitness ==
    /\ Decompressed /\ ArchiveOfInput
    /\ Cardinality(Range(SourceText)) = 3
    /\ padding > 0
    /\ fs["out"] = TextFile(SourceText)

(* C2: the code table built from a non-empty frequency table is            *)
(* prefix-free: no code is a prefix of (or equal to) the code of another   *)
(* symbol.                                                                 *)
PrefixFree ==
    (cmd = "tree" /\ pc = "return" /\ freq_table # <<>>) =>
        \A a, b \in DOMAIN code_table :
            a # b => ~IsPrefix(code_table[a], code_table[b])

\* reached: four symbols, one of them with a three-bit code
PrefixFreeWitness ==
    /\ cmd = "tree" /\ pc = "return"
    /\ Cardinality(DOMAIN code_table) = 4
    /\ \E a \in DOMAIN code_table : Len(code_table[a]) = 3

(* C3: unpack_bits applied to the result of pack_bits(B) gives B back for  *)
(* every bit string B, and the empty string packs to no byte with          *)
(* padding 0.                                                              *)
PackRoundTrip ==
    (cmd = "bits" /\ pc = "return") =>
        /\ encoded = input
        /\ (input = <<>> => packed = <<>> /\ padding = 0)

\* reached: nine bits, packed into two bytes with seven padding bits
PackRoundTripWitness ==
    /\ cmd = "bits" /\ pc = "return"
    /\ Len(input) = 9 /\ Len(packed) = 2 /\ padding = 7
    /\ encoded = input

(* C4: for a text of one symbol repeated N times the code table has one    *)
(* entry, its code is "0", the encoded bit string is N bits long, and      *)
(* decompress restores the N copies.                                       *)
SingleSymbolCode ==
    /\ (cmd = "compress" /\ "encode" \in ran /\ pc # "raised" /\ SingleSymbol(text)) =>
          /\ DOMAIN code_table = {text[1]}
          /\ code_table[text[1]] = <<"0">>
          /\ Len(encoded) = Len(text)
    /\ (Decompressed /\ ArchiveOfInput /\ SingleSymbol(SourceText)) =>
          /\ Len(encoded) = Len(SourceText)
          /\ decoded = SourceText

\* reached: three copies of one symbol restored from three bits
SingleSymbolWitness ==
    /\ Decompressed /\ ArchiveOfInput
    /\ SingleSymbol(SourceText) /\ Len(SourceText) = 3
    /\ Len(encoded) = 3 /\ decoded = SourceText

\* the statements of compress after its two checks
Pipeline == {"c_freq", "bht_entry", "bht_heap", "bht_single", "bht_loop",
             "codes", "encode", "pack", "c_write", "c_report"}

(* C5: compress on an existing empty input prints the empty-input error    *)
(* and returns with the output path as it was; no statement of the         *)
(* pipeline runs and no file is written.                                   *)
EmptyInputRejected ==
    (cmd = "compress" /\ fs0["in"] = TextFile(<<>>) /\ "c_empty" \in ran) =>
        /\ pc \in {"return", "exited"}
        /\ printed = <<"Error: Input file is empty.">>
        /\ fs["arc"] = fs0["arc"]
        /\ ran \cap Pipeline = {}
        /\ \A i \in 1..Len(io_log) : io_log[i].op # "write"

\* reached: the empty input was rejected with bytes already at the output path
EmptyInputWitness ==
    /\ cmd = "compress" /\ fs0["in"] = TextFile(<<>>) /\ pc = "exited"
    /\ fs0["arc"] = Garbage /\ fs["arc"] = Garbage
    /\ printed = <<"Error: Input file is empty.">>

\* decompress was started on a file compress did not produce
ForeignArchive ==
    /\ cmd = "decompress" /\ pc \notin {"d_exists", "idle", "exited"}
    /\ \/ fs["arc"].kind = "garbage"
       \/ fs["arc"].kind = "huff" /\ tampered

(* C6: decompress given a file that is not a product of compress ends in   *)
(* a detected corrupt-file error: it raises no exception that nobody       *)
(* catches and it writes no output.                                        *)
CorruptArchiveDetected ==
    ForeignArchive => (pc # "raised" /\ exc = "none" /\ "d_write" \notin ran)

(* C7: build_huffman_tree called with an empty frequency table signals an  *)
(* explicit error.                                                         *)
EmptyTableRaises ==
    (cmd = "tree" /\ freq_table = <<>> /\ "bht_entry" \in ran) =>
        (exc # "none" /\ pc = "raised")

(* C7, amended: build_huffman_tree called with an empty frequency table    *)
(* signals no error: it creates no node and returns None, for which        *)
(* build_code_table returns the empty dict.                                *)
EmptyTableReturnsNone ==
    (cmd = "tree" /\ freq_table = <<>> /\ "bht_entry" \in ran) =>
        /\ exc = "none" /\ pc \in {"codes", "return"}
        /\ tree_root = None /\ nodes = <<>> /\ heap = <<>>
        /\ (pc = "return" => code_table = EmptyDict)

\* reached: the empty table went through both functions
EmptyTableWitness ==
    /\ cmd = "tree" /\ freq_table = <<>> /\ pc = "return"
    /\ tree_root = None /\ "codes" \in ran

\* the input path of the command being run
InputPath == IF cmd = "decompress" THEN "arc" ELSE "in"

\* the first statement of the command has run on a missing input path
MissingInput ==
    /\ cmd \in Commands /\ ~exists(fs0, InputPath)
    /\ ran \cap {"c_exists", "d_exists", "a_exists"} # {}

(* C8: when the input path does not exist, compress, decompress and        *)
(* analyze print the error and return: no file is created or changed, and  *)
(* no file is opened for reading or writing.                               *)
MissingInputAborts ==
    MissingInput =>
        /\ pc \in {"return", "exited"}
        /\ exc = "none"
        /\ printed = <<"Error: File not found.">>
        /\ fs = fs0
        /\ io_log = <<[op |-> "exists", path |-> InputPath]>>

\* reached: decompress of a missing archive left an existing output file alone
MissingInputWitness ==
    /\ MissingInput /\ cmd = "decompress" /\ pc = "exited"
    /\ fs0["out"] = TextFile(<<"b">>) /\ fs["out"] = fs0["out"]

(* C9: the process ends with a non-zero exit status whenever compress is   *)
(* given a missing or empty input, and whenever decompress or analyze is   *)
(* given a missing input.                                                  *)
ErrorExitsNonZero ==
    (/\ pc = "exited"
     /\ \/ MissingInput
        \/ cmd = "compress" /\ fs0["in"] = TextFile(<<>>)) =>
        exit_status # 0

\* len(text) for a frequency table: the sum of its counts
RECURSIVE TotalCount(_)
TotalCount(table) == IF table = <<>> THEN 0 ELSE Head(table).freq + TotalCount(Tail(table))

\* the sum over the symbols of frequency times code length: TotalCount
\* times the average code length L
RECURSIVE CodedBits(_, _)
CodedBits(table, codes) ==
    IF table = <<>> THEN 0
    ELSE Head(table).freq * Len(codes[Head(table).char]) + CodedBits(Tail(table), codes)

\* H <= bits / total, as 2 ^ (total * H) <= 2 ^ bits
EntropyAtMost(table, total, bits) ==
    LET h == calculate_entropy(table, total)
    IN  big_le(h.num, big_mul_pow(h.den, 2, bits))

\* bits / total <= H, as 2 ^ bits <= 2 ^ (total * H)
EntropyAtLeast(table, total, bits) ==
    LET h == calculate_entropy(table, total)
    IN  big_le(big_mul_pow(h.den, 2, bits), h.num)

(* C10: for every frequency distribution the average code length L of the *)
(* code built for it satisfies H <= L and L <= H + 1, where H is the       *)
(* Shannon entropy that calculate_entropy computes.                        *)
EntropyBound ==
    (cmd = "tree" /\ pc = "return" /\ freq_table # <<>>) =>
        LET total == TotalCount(freq_table)
            bits == CodedBits(freq_table, code_table)
        IN  /\ EntropyAtMost(freq_table, total, bits)
            /\ bits >= total
            /\ EntropyAtLeast(freq_table, total, bits - total)

\* reached: four symbols of unequal counts whose average code length lies
\* strictly between H and H + 1
EntropyBoundWitness ==
    /\ cmd = "tree" /\ pc = "return" /\ Len(freq_table) = 4
    /\ \E i, j \in 1..4 : freq_table[i].freq = 1 /\ freq_table[j].freq = MaxFreq
    /\ LET total == TotalCount(freq_table)
           bits == CodedBits(freq_table, code_table)
       IN  /\ ~EntropyAtLeast(freq_table, total, bits)
           /\ ~EntropyAtMost(freq_table, total, bits - total)

\* the count a frequency table holds for char, 0 when char is no key
Count(table, char) ==
    IF \E i \in 1..Len(table) : table[i].char = char
    THEN table[CHOOSE i \in 1..Len(table) : table[i].char = char].freq
    ELSE 0

Keys(table) == {table[i].char : i \in 1..Len(table)}

\* how many times char occurs in the sequence s
Occurrences(s, char) == Cardinality({k \in 1..Len(s) : s[k] = char})

\* the library run on the literal example, encoding the example itself
ExampleRun == cmd = "codec" /\ input = Example /\ text = Example

(* C11: for the input "aaaabbbcc" the frequency table is {a:4, b:3, c:2},  *)
(* a gets a code of 1 bit, b and c get codes of 2 bits that start with the *)
(* other bit, the encoded bit string has at most 18 bits, and decoding it  *)
(* gives "aaaabbbcc" back.                                                 *)
LiteralExample ==
    ExampleRun =>
        /\ "lib_freq" \in ran =>
              /\ Keys(freq_table) = {"a", "b", "c"} /\ Len(freq_table) = 3
              /\ Count(freq_table, "a") = 4
              /\ Count(freq_table, "b") = 3
              /\ Count(freq_table, "c") = 2
        /\ "codes" \in ran =>
              /\ Len(code_table["a"]) = 1
              /\ Len(code_table["b"]) = 2 /\ Len(code_table["c"]) = 2
              /\ code_table["b"][1] # code_table["a"][1]
              /\ code_table["c"][1] # code_table["a"][1]
        /\ "encode" \in ran => (pc # "raised" /\ Len(encoded) <= 18)
        /\ pc = "return" => decoded = Example

\* reached: the example decoded from its 14 bits
LiteralExampleWitness ==
    /\ ExampleRun /\ pc = "return"
    /\ Len(encoded) = 14 /\ decoded = Example
    /\ Len(code_table["a"]) = 1

\* bit k (from 1) of the bytes data, each byte read most significant bit first
BitOf(data, k) ==
    LET byte == data[((k - 1) \div 8) + 1]
        shift == 7 - ((k - 1) % 8)
    IN  IF (byte \div (2 ^ shift)) % 2 = 1 THEN "1" ELSE "0"

(* C12: for every bit string B, pack_bits(B) returns (bytes, p) with       *)
(* p = (8 - len(B) mod 8) mod 8, p in 0..7 and 8 * len(bytes) = len(B) + p; *)
(* the bytes, most significant bit first, spell B and then p zero bits.    *)
PackLayout ==
    (cmd = "bits" /\ "pack" \in ran) =>
        /\ padding = (8 - (Len(input) % 8)) % 8
        /\ padding \in 0..7
        /\ 8 * Len(packed) = Len(input) + padding
        /\ \A j \in 1..Len(packed) : packed[j] \in 0..255
        /\ \A k \in 1..(8 * Len(packed)) :
              BitOf(packed, k) = (IF k <= Len(input) THEN input[k] ELSE "0")

\* reached: eight bits packed into one byte with no padding, first bit set
PackLayoutWitness ==
    /\ cmd = "bits" /\ "pack" \in ran
    /\ Len(input) = 8 /\ input[1] = "1" /\ padding = 0
    /\ Len(packed) = 1 /\ packed[1] >= 128

(* C13: build_frequency_table returns, for every input sequence, a table   *)
(* whose counts sum to the length of the input, whose keys are the         *)
(* distinct symbols of the input, each once, and where the count of a key  *)
(* is the number of occurrences of that symbol, so never 0.                *)
FrequencyTableCounts ==
    (cmd = "codec" /\ "lib_freq" \in ran) =>
        /\ TotalCount(freq_table) = Len(input)
        /\ Keys(freq_table) = Range(input)
        /\ \A i, j \in 1..Len(freq_table) :
              freq_table[i].char = freq_table[j].char => i = j
        /\ \A i \in 1..Len(freq_table) :
              /\ freq_table[i].freq = Occurrences(input, freq_table[i].char)
              /\ freq_table[i].freq > 0

\* reached: the table of a text with a repeated symbol and two others
FrequencyTableWitness ==
    /\ cmd = "codec" /\ "lib_freq" \in ran
    /\ Len(input) = MaxText /\ Len(freq_table) = 3
    /\ \E i \in 1..3 : freq_table[i].freq = 2

\* build_huffman_tree has returned a tree for a non-empty table
TreeBuilt == cmd = "tree" /\ pc = "return" /\ freq_table # <<>>

\* the nodes of the tree under tree_root
TreeNodes == Range(preorder(nodes, tree_root))

\* the (parent, side) pairs among the nodes tn whose child is n
ParentLinks(tn, n) ==
    {<<m, side>> \in tn \X {"left", "right"} :
        (IF side = "left" THEN nodes[m].left ELSE nodes[m].right) = n}

TwoChildren(n) == nodes[n].left # None /\ nodes[n].right # None

(* C14: in every tree build_huffman_tree returns for a non-empty frequency *)
(* table every internal node has exactly two children and no node is the   *)
(* child of more than one parent.                                          *)
StrictBinaryTree ==
    TreeBuilt =>
        LET tn == TreeNodes
        IN  \A n \in tn :
                /\ ~is_leaf(nodes[n]) => TwoChildren(n)
                /\ Cardinality(ParentLinks(tn, n)) <= 1

(* C14, amended: for a frequency table of two or more symbols every        *)
(* internal node of the tree has exactly two children; for a table of one  *)
(* symbol the root is an internal node with exactly one child, the lone    *)
(* leaf, on its left. In both cases a leaf has no child and no node is the *)
(* child of more than one parent.                                          *)
BinaryTreeShape ==
    TreeBuilt =>
        LET tn == TreeNodes
        IN
        /\ \A n \in tn :
              /\ Cardinality(ParentLinks(tn, n)) <= 1
              /\ is_leaf(nodes[n]) => (nodes[n].left = None /\ nodes[n].right = None)
              /\ (~is_leaf(nodes[n]) /\ Len(freq_table) >= 2) => TwoChildren(n)
        /\ Len(freq_table) = 1 =>
              /\ Cardinality(tn) = 2
              /\ ~is_leaf(nodes[tree_root])
              /\ nodes[tree_root].right = None
              /\ nodes[tree_root].left # None
              /\ nodes[nodes[tree_root].left].char = freq_table[1].char

\* reached: four leaves under three internal nodes of two children each
BinaryTreeWitness ==
    /\ TreeBuilt /\ Len(freq_table) = 4
    /\ Cardinality(TreeNodes) = 7
    /\ \A n \in TreeNodes : ~is_leaf(nodes[n]) => TwoChildren(n)

(* C15: for every non-empty frequency table the keys of                    *)
(* build_code_table(build_huffman_tree(freq)) are the keys of freq: each   *)
(* symbol has one code, no other symbol has one, and every code is a       *)
(* non-empty string of 0s and 1s.                                          *)
CodeTableKeys ==
    TreeBuilt =>
        /\ DOMAIN code_table = Keys(freq_table)
        /\ Cardinality(DOMAIN code_table) = Len(freq_table)
        /\ \A k \in DOMAIN code_table :
              code_table[k] # <<>> /\ Range(code_table[k]) \subseteq Bit

\* reached: three symbols, the most frequent one with a code of one bit
CodeTableKeysWitness ==
    /\ TreeBuilt /\ Len(freq_table) = 3
    /\ DOMAIN code_table = Keys(freq_table)
    /\ \E k \in DOMAIN code_table :
          Len(code_table[k]) = 1 /\ Count(freq_table, k) = MaxFreq

\* encode_text has returned a bit string
Encoded == cmd = "codec" /\ "encode" \in ran /\ pc # "raised"

\* the number of bits the codes of the first n symbols of txt take
RECURSIVE CodeBitsBefore(_, _, _)
CodeBitsBefore(txt, codes, n) ==
    IF n = 0 THEN 0 ELSE CodeBitsBefore(txt, codes, n - 1) + Len(codes[txt[n]])

\* the sum over the symbols in S of occurrences in txt times code length
RECURSIVE WeightedLength(_, _, _)
WeightedLength(S, txt, codes) ==
    IF S = {} THEN 0
    ELSE LET c == CHOOSE x \in S : TRUE
         IN  Occurrences(txt, c) * Len(codes[c]) + WeightedLength(S \ {c}, txt, codes)

(* C16: encode_text(S, table) is the concatenation of table[s] for each    *)
(* symbol s of S in the order of S, so its length is the sum over the      *)
(* distinct symbols of S of occurrences times code length.                 *)
EncodeConcatenates ==
    Encoded =>
        /\ \A i \in 1..Len(text) :
              SubSeq(encoded,
                     CodeBitsBefore(text, code_table, i - 1) + 1,
                     CodeBitsBefore(text, code_table, i)) = code_table[text[i]]
        /\ Len(encoded) = CodeBitsBefore(text, code_table, Len(text))
        /\ Len(encoded) = WeightedLength(Range(text), text, code_table)

\* reached: a text encoded with a table built from another, longer text
EncodeConcatenatesWitness ==
    /\ Encoded /\ text # input /\ Len(text) = 2 /\ text[1] # text[2]
    /\ Len(encoded) = 3
    /\ encoded = code_table[text[1]] \o code_table[text[2]]

\* encode_text was called on a text with a symbol the code table lacks
UnknownSymbol ==
    /\ cmd = "codec" /\ "encode" \in ran
    /\ \E i \in 1..Len(text) : text[i] \notin DOMAIN code_table

(* C17: encode_text given a sequence with a symbol that is absent from the *)
(* code table fails with an error (KeyError) and returns no bit string; it *)
(* neither skips the symbol nor puts a code in its place.                  *)
EncodeUnknownSymbolFails ==
    UnknownSymbol =>
        /\ pc = "raised" /\ exc = "KeyError"
        /\ encoded = <<>>
        /\ ran \cap {"dec_entry", "dec_loop"} = {}

\* reached: the second symbol of the text is the one the table lacks
EncodeUnknownSymbolWitness ==
    /\ UnknownSymbol /\ pc = "raised"
    /\ Len(text) = 2 /\ text[1] \in DOMAIN code_table /\ text[2] \notin DOMAIN code_table
    /\ Cardinality(DOMAIN code_table) = 2

\* decode_text is in its loop over the bits encode_text made of the input
DecodingOwnBits == cmd = "codec" /\ text = input /\ input # <<>> /\ pc = "dec_loop"

(* C18: for the tree T built from a non-empty input S and the bits         *)
(* B = encode_text(S, build_code_table(T)), every pass of the loop of      *)
(* decode_text(B, T) consumes one bit and moves left on 0 and right on 1;  *)
(* it emits a symbol exactly when it reaches a leaf and then restarts at   *)
(* the root; it returns only when all of B is consumed, with the walk at   *)
(* the root, and what it returns is S.                                     *)
DecodeWalk ==
    [][DecodingOwnBits =>
        /\ pc' \in {"dec_loop", "return"}
        /\ pc' = "dec_loop" =>
              LET bit == encoded[bitpos + 1]
                  to == IF bit = "0" THEN nodes[node].left ELSE nodes[node].right
              IN  /\ bitpos < Len(encoded) /\ bitpos' = bitpos + 1
                  /\ to # None
                  /\ IF nodes[to].char # NoChar
                     THEN result' = Append(result, nodes[to].char) /\ node' = tree_root
                     ELSE result' = result /\ node' = to
        /\ pc' = "return" =>
              /\ bitpos = Len(encoded)
              /\ node = tree_root
              /\ decoded' = input /\ result = input]_vars

\* reached: the text with codes of one, two and three bits decoded from
\* its 14 bits
DecodeWalkWitness ==
    /\ cmd = "codec" /\ text = input /\ input = Skewed /\ pc = "return"
    /\ bitpos = Len(encoded) /\ Len(encoded) = 14
    /\ node = tree_root /\ decoded = Skewed
    /\ \E c \in DOMAIN code_table : Len(code_table[c]) = 3

(* C19: a run of the scraper that was interrupted while the fork list was  *)
(* still being fetched page by page, and was then restarted, still gets    *)
(* all forks of the repository from get_all_forks: the list used after the *)
(* restart is the complete one.                                            *)
ResumedForkListComplete ==
    (fetch_interrupted /\ spc = "sa_entry") => forks = repo_forks

NoDuplicates(s) == \A m, n \in 1..Len(s) : s[m] = s[n] => m = n

\* the saved dict st points at the fork of the last user it records
IndexOfLastUser(st) ==
    IF st.processed_users = <<>>
    THEN st.last_processed_index = -1
    ELSE /\ st.last_processed_index + 1 \in 1..Len(st.forks_list)
         /\ st.forks_list[st.last_processed_index + 1] =
                st.processed_users[Len(st.processed_users)]

(* C20: after any sequence of Ctrl+C interruptions and restarts during the *)
(* user analysis the run resumes where it left off: the loop works on the  *)
(* indexes after last_processed_index, no user is recorded in              *)
(* processed_users more than once, and in the saved state                  *)
(* last_processed_index is the index of the last user in processed_users.  *)
ResumeConsistent ==
    /\ spc = "sa_loop" => index > state.last_processed_index
    /\ NoDuplicates(state.processed_users)
    /\ state_file # Missing =>
          /\ NoDuplicates(state_file[1].processed_users)
          /\ IndexOfLastUser(state_file[1])

\* the sum of the weights of the nodes on the heap h
RECURSIVE HeapWeight(_, _)
HeapWeight(ns, h) == IF h = <<>> THEN 0 ELSE ns[Head(h)].freq + HeapWeight(ns, Tail(h))

(* C21: in every merge step of build_huffman_tree the two nodes removed    *)
(* weigh no more than any node left in the queue; the first removed (the   *)
(* top of the heap) becomes the left child and the second the right child; *)
(* the weight of the new parent is the sum of theirs. So the sum of the    *)
(* weights in the queue stays the same, and the weight of the root         *)
(* returned is the sum of the counts of the table.                         *)
MergeStep ==
    [][(cmd = "tree" /\ freq_table # <<>>) =>
        /\ (pc = "bht_loop" /\ Len(heap) > 1) =>
              LET parent == Len(nodes')
                  left == nodes'[parent].left
                  right == nodes'[parent].right
                  others == Range(heap) \ {left, right}
              IN  /\ pc' = "bht_loop"
                  /\ Len(nodes') = Len(nodes) + 1
                  /\ SubSeq(nodes', 1, Len(nodes)) = nodes
                  /\ left = heap[1] /\ right \in Range(heap) /\ left # right
                  /\ nodes[left].freq <= nodes[right].freq
                  /\ \A n \in others : nodes[right].freq <= nodes[n].freq
                  /\ nodes'[parent].char = NoChar
                  /\ nodes'[parent].freq = nodes[left].freq + nodes[right].freq
                  /\ Range(heap') = others \cup {parent}
                  /\ Len(heap') = Len(heap) - 1
                  /\ HeapWeight(nodes', heap') = HeapWeight(nodes, heap)
        /\ pc' = "codes" =>
              nodes'[tree_root'].freq = TotalCount(freq_table)]_vars

\* reached: one merge of two nodes of unequal weight done, two nodes and
\* the parent on the heap
MergeStepWitness ==
    /\ cmd = "tree" /\ pc = "bht_loop"
    /\ Len(freq_table) = 4 /\ Len(nodes) = 5 /\ Len(heap) = 3
    /\ nodes[nodes[5].left].freq < nodes[nodes[5].right].freq
    /\ 5 \in Range(heap)

(* C22: for a frequency table of k >= 2 symbols the merge loop ends after  *)
(* exactly k - 1 merges with exactly one node on the heap, which is        *)
(* returned as the root; for k = 1 no merge runs.                          *)
MergeCount ==
    (cmd = "tree" /\ freq_table # <<>> /\ "bht_heap" \in ran) =>
        LET k == Len(freq_table)
            merges == Len(nodes) - k
        IN  /\ pc # "raised"
            /\ pc = "bht_loop" => (Len(heap) = k - merges /\ Len(heap) >= 1)
            /\ (k >= 2 /\ pc \in {"codes", "return"}) =>
                  /\ merges = k - 1
                  /\ Len(heap) = 1
                  /\ tree_root = heap[1]
            /\ (k = 1 /\ "bht_single" \in ran) =>
                  /\ "bht_loop" \notin ran
                  /\ \A n \in 1..Len(nodes) :
                        ~is_leaf(nodes[n]) => (n = tree_root /\ nodes[n].right = None)

\* reached: four symbols, three merges, the last node on the heap returned
MergeCountWitness ==
    /\ cmd = "tree" /\ pc = "codes" /\ Len(freq_table) = 4
    /\ Len(nodes) = 7 /\ heap = <<7>> /\ tree_root = 7

(* C24: for every non-empty frequency table and any two symbols a and b    *)
(* with freq(a) > freq(b), the code of a is no longer than the code of b.  *)
MoreFrequentNoLonger ==
    TreeBuilt =>
        \A i, j \in 1..Len(freq_table) :
            freq_table[i].freq > freq_table[j].freq =>
                Len(code_table[freq_table[i].char]) <= Len(code_table[freq_table[j].char])

\* reached: four symbols of four different counts, codes of 1, 2, 3 and 3 bits
MoreFrequentWitness ==
    /\ TreeBuilt /\ Len(freq_table) = 4
    /\ \A i, j \in 1..4 : i # j => freq_table[i].freq # freq_table[j].freq
    /\ {Len(code_table[c]) : c \in DOMAIN code_table} = {1, 2, 3}

(* C23: once build_huffman_tree has returned, the tree is not changed:     *)
(* build_code_table, encode_text and decode_text leave the symbol, weight  *)
(* and child links of every node as they are, and encode_text leaves the   *)
(* code table as it is.                                                    *)
TreeReadOnly ==
    [][(cmd \in Commands /\ pc \in {"codes", "encode", "dec_entry", "dec_loop"}) =>
        /\ nodes' = nodes
        /\ tree_root' = tree_root
        /\ pc = "encode" => code_table' = code_table]_vars

\* reached: compress has built the code table of three symbols and encoded
\* the text, the five nodes of the tree still linked
TreeReadOnlyWitness ==
    /\ cmd = "compress" /\ pc = "pack" /\ Len(nodes) = 5
    /\ Cardinality(DOMAIN code_table) = 3 /\ encoded # <<>>
    /\ nodes[tree_root].left # None /\ nodes[tree_root].right # None

Wrote(path) == \E k \in 1..Len(io_log) : io_log[k] = [op |-> "write", path |-> path]

(* C28: decompress opens the output path for writing only after the        *)
(* archive has been read, deserialized, unpacked and decoded; if one of    *)
(* those steps fails the output path is neither created nor changed.       *)
(* compress opens its output path only after encoding and packing.         *)
OutputOpenedLast ==
    /\ (cmd = "decompress" /\ Wrote("out")) =>
          /\ {"d_load", "unpack", "dec_entry"} \subseteq ran
          /\ decoded = result /\ bitpos = Len(encoded)
          /\ exc = "none"
    /\ (cmd = "decompress" /\ exc # "none") =>
          /\ ~Wrote("out")
          /\ fs["out"] = fs0["out"]
    /\ (cmd = "compress" /\ Wrote("arc")) =>
          /\ {"encode", "pack"} \subseteq ran
          /\ packed = pack_bits(encoded).data
          /\ exc = "none"

\* reached: decode_text failed on a changed archive and the output file
\* that existed before is as it was
OutputOpenedLastWitness ==
    /\ cmd = "decompress" /\ pc = "exited" /\ exc = "AttributeError"
    /\ fs0["out"] = TextFile(<<"b">>) /\ fs["out"] = fs0["out"]

\* decode_text is walking the bits it was given, on the tree of input
DecodingGivenBits == cmd = "decode" /\ pc = "dec_loop" /\ bitpos < Len(encoded)

(* C26: for every tree built for a non-empty frequency table and every bit *)
(* string, decode_text never steps to a missing child: each bit moves the  *)
(* walk to an existing node and the call ends without a runtime failure.   *)
DecodeNeverFails ==
    /\ DecodingGivenBits => child(nodes, node, encoded[bitpos + 1]) # None
    /\ cmd = "decode" => exc = "none"

\* decode_text has used up the bits with the walk inside the tree
EndedMidCode ==
    /\ cmd = "decode" /\ pc \in {"return", "raised"}
    /\ bitpos = Len(encoded) /\ node # tree_root

(* C27: when the bit string ends while the walk is at an internal node,    *)
(* decode_text returns the symbols completed so far and raises no error:   *)
(* the bits of the incomplete last code are dropped and nothing tells the  *)
(* caller.                                                                 *)
IncompleteCodeDropped ==
    EndedMidCode =>
        LET whole == encode_text(decoded, code_table)
            rest == SubSeq(encoded, Len(whole) + 1, Len(encoded))
        IN  /\ pc = "return" /\ exc = "none" /\ printed = <<>>
            /\ decoded = result
            /\ IsPrefix(whole, encoded) /\ rest # <<>>
            /\ \E c \in DOMAIN code_table :
                  IsPrefix(rest, code_table[c]) /\ rest # code_table[c]

\* reached: on the three-level tree the bits of two symbols and one more bit
IncompleteCodeWitness ==
    /\ EndedMidCode /\ input = Skewed
    /\ Len(decoded) = 2 /\ Len(encoded) = MaxCode

\* some repository delete request was sent
DeleteSent == \E k \in 1..Len(requests) : requests[k].method = "DELETE"

(* C29: delete_with_token.main sends no repository delete request unless a *)
(* token argument was given, the token verification request was answered   *)
(* with status 200 and the user typed exactly DELETE ALL; in every other   *)
(* case the program exits with no delete request sent.                     *)
NoDeleteUnlessConfirmed ==
    LET allowed == /\ Len(argv) >= 2
                   /\ requests # <<>>
                   /\ requests[1] = Request("GET", "user", argv[2], 200)
                   /\ confirm = "DELETE ALL"
    IN  /\ DeleteSent => allowed
        /\ DeleteSent =>
              \A k \in 2..Len(requests) :
                  requests[k].method = "DELETE" /\ requests[k].token = argv[2]
        /\ (dpc = "exited" /\ ~allowed) => (~DeleteSent /\ deleted = 0 /\ failed = 0)

\* reached: after DELETE ALL every list was walked and the run ended
NoDeleteWitness ==
    /\ dpc = "exited" /\ dexit = 0 /\ confirm = "DELETE ALL"
    /\ Len(requests) = 1 + Len(FORKS) + Len(BOTS) + Len(UNUSED)
    /\ deleted + failed = Len(UNUSED) /\ deleted >= 1

(* C30: after every call of add_recent_change, session.recent_changes has  *)
(* at most 10 entries, they are the changes added last, in the order they  *)
(* were added, and the context file holds the context as it is now.        *)
RecentChangesKept ==
    [][Len(added') = Len(added) + 1 =>
        LET rc == context'.recent_changes
        IN  /\ Len(rc) <= KeepLast
            /\ [k \in 1..Len(rc) |-> rc[k].change] = LastOf(added', KeepLast)
            /\ \A k \in 1..Len(rc) - 1 : rc[k].timestamp < rc[k + 1].timestamp
            /\ context_file' = save_context(context')
            /\ load_context(context_file', clock') = context']_vars

\* reached: more than ten changes were added, the project info was updated
\* in between, and the oldest kept entry is the one added ten calls ago
RecentChangesWitness ==
    /\ cm = "ready" /\ Len(added) = MaxChanges /\ MaxChanges > KeepLast
    /\ Len(context.recent_changes) = KeepLast
    /\ context.recent_changes[1].change = added[MaxChanges - KeepLast + 1]
    /\ context.recent_changes[1].change # added[1]
    /\ context.recent_changes[1].timestamp = MaxChanges - KeepLast
    /\ context.last_updated > 0
    /\ context_file = save_context(context)

====
